---- MODULE Spec2Model ----
(***************************************************************************)
(* A model of the AI generation layer of SoulMail: the four controller     *)
(* handlers (controllers/ai.js) and the generation service they call       *)
(* (services/aiService.js).                                                *)
(*                                                                         *)
(* Text is a sequence of one-character strings.  A JavaScript value is a   *)
(* tagged record: [t |-> "undef"], [t |-> "null"], [t |-> "num", n |-> 5], *)
(* [t |-> "str", s |-> <<"a">>], [t |-> "arr", a |-> <<...>>],             *)
(* [t |-> "obj", k |-> <<keys>>, v |-> <<values>>].                        *)
(* Fractional sampling parameters are held in hundredths (0.7 is 70).      *)
(***************************************************************************)
EXTENDS Integers, Sequences, FiniteSets, TLC

VARIABLES
    pc,             \* where the request is: idle, fetching, calling, done
    req,            \* the request: its entry point and what the caller sent
    letter,         \* what letterService.getLetterById answered
    sent,           \* what was handed to ai.models.generateContent
    providerCalls,  \* number of calls to ai.models.generateContent
    storeLookups,   \* number of calls to letterService.getLetterById
    providerAnswer, \* what the provider answered: a response or a failure
    result,         \* what the aiService function returned
    outcome,        \* what the handler ended with: an envelope or an error
    fnIn,           \* the argument of a helper function under test
    fnOut           \* the value the helper returned

vars == <<pc, req, letter, sent, providerCalls, storeLookups, providerAnswer,
          result, outcome, fnIn, fnOut>>

(***************************************************************************)
(* JavaScript values                                                       *)
(***************************************************************************)
JSUndefined == [t |-> "undef"]
JSNull == [t |-> "null"]
JSNum(n) == [t |-> "num", n |-> n]
JSStr(s) == [t |-> "str", s |-> s]
JSArr(a) == [t |-> "arr", a |-> a]
JSObj(k, v) == [t |-> "obj", k |-> k, v |-> v]

None == [t |-> "none"]

\* typeof v === 'string'
IsString(v) == v.t = "str"

\* !v : undefined, null, 0 and '' are falsy
Falsy(v) ==
    \/ v.t \in {"undef", "null"}
    \/ v.t = "num" /\ v.n = 0
    \/ v.t = "str" /\ v.s = <<>>

\* a ?? b tests only for undefined and null
Nullish(v) == v.t \in {"undef", "null"}

(***************************************************************************)
(* Text helpers: String.prototype.trim, split, the character classes       *)
(***************************************************************************)
Whitespace == {" ", "\n", "\t"}

Digits == {"0", "1", "2", "3", "4", "5", "6", "7", "8", "9"}

Letters ==
    {"a", "b", "c", "d", "e", "f", "g", "h", "i", "j", "k", "l", "m",
     "n", "o", "p", "q", "r", "s", "t", "u", "v", "w", "x", "y", "z",
     "A", "B", "C", "D", "E", "F", "G", "H", "I", "J", "K", "L", "M",
     "N", "O", "P", "Q", "R", "S", "T", "U", "V", "W", "X", "Y", "Z"}

Quotes == {"\"", "'"}

SetMin(S) == CHOOSE x \in S : \A y \in S : x <= y

SetMax(S) == CHOOSE x \in S : \A y \in S : x >= y

\* text.trim()
Trim(s) ==
    LET keep == {i \in 1..Len(s) : s[i] \notin Whitespace}
    IN  IF keep = {} THEN <<>> ELSE SubSeq(s, SetMin(keep), SetMax(keep))

\* text.replace(/["']/g, '') and the like: drop every character of a class
RECURSIVE RemoveAll(_, _)
RemoveAll(s, class) ==
    IF s = <<>> THEN <<>>
    ELSE IF Head(s) \in class THEN RemoveAll(Tail(s), class)
    ELSE <<Head(s)>> \o RemoveAll(Tail(s), class)

\* text.replace(/^[^a-zA-Z]*/, ''): drop the leading characters outside a class
RECURSIVE DropLeadingNot(_, _)
DropLeadingNot(s, class) ==
    IF s = <<>> THEN <<>>
    ELSE IF Head(s) \in class THEN s
    ELSE DropLeadingNot(Tail(s), class)

\* text.split(sep), sep a single character
RECURSIVE Split(_, _)
Split(s, sep) ==
    LET at == {i \in 1..Len(s) : s[i] = sep}
    IN  IF at = {} THEN <<s>>
        ELSE <<SubSeq(s, 1, SetMin(at) - 1)>>
             \o Split(SubSeq(s, SetMin(at) + 1, Len(s)), sep)

\* array.filter(p => p.length > n)
RECURSIVE LongerThan(_, _)
LongerThan(a, n) ==
    IF a = <<>> THEN <<>>
    ELSE IF Len(Head(a)) > n THEN <<Head(a)>> \o LongerThan(Tail(a), n)
    ELSE LongerThan(Tail(a), n)

\* array.slice(0, n), n >= 0
Slice0(a, n) == SubSeq(a, 1, IF n < Len(a) THEN n ELSE Len(a))

\* array.map(p => p.trim())
TrimEach(a) == [i \in 1..Len(a) |-> Trim(a[i])]

DigitVal(c) ==
    CASE c = "0" -> 0 [] c = "1" -> 1 [] c = "2" -> 2 [] c = "3" -> 3
      [] c = "4" -> 4 [] c = "5" -> 5 [] c = "6" -> 6 [] c = "7" -> 7
      [] c = "8" -> 8 [] c = "9" -> 9

(***************************************************************************)
(* JSON.parse, for the JSON texts without whitespace, escapes, fractions   *)
(* or signs: null, true, false, digits, "string", [v,...], {"k":v,...}.    *)
(* Each Parse operator reads one construct of text s starting at index i   *)
(* and answers [ok, v, next]; a text the grammar rejects is a SyntaxError. *)
(***************************************************************************)
ParseFail == [ok |-> FALSE, v |-> JSUndefined, next |-> 0]

StartsWithAt(s, i, w) ==
    /\ i + Len(w) - 1 <= Len(s)
    /\ SubSeq(s, i, i + Len(w) - 1) = w

RECURSIVE DigitsEnd(_, _)
\* the index after the run of digits that starts at i
DigitsEnd(s, i) ==
    IF i <= Len(s) /\ s[i] \in Digits THEN DigitsEnd(s, i + 1) ELSE i

RECURSIVE DigitsValue(_, _)
DigitsValue(d, acc) ==
    IF d = <<>> THEN acc ELSE DigitsValue(Tail(d), 10 * acc + DigitVal(Head(d)))

ParseString(s, i) ==
    IF i > Len(s) \/ s[i] # "\"" THEN ParseFail
    ELSE LET close == {j \in (i + 1)..Len(s) : s[j] = "\""}
         IN  IF close = {} THEN ParseFail
             ELSE LET j == SetMin(close)
                  IN  IF \E m \in (i + 1)..(j - 1) : s[m] \in {"\\", "\n", "\t"}
                      THEN ParseFail
                      ELSE [ok |-> TRUE, v |-> JSStr(SubSeq(s, i + 1, j - 1)),
                            next |-> j + 1]

RECURSIVE ParseValue(_, _)
RECURSIVE ParseElements(_, _, _)
RECURSIVE ParseMembers(_, _, _, _)

\* the elements of an array after "[" or ",": value ("," value)* "]"
ParseElements(s, i, acc) ==
    LET e == ParseValue(s, i)
    IN  IF ~e.ok \/ e.next > Len(s) THEN ParseFail
        ELSE IF s[e.next] = "]"
             THEN [ok |-> TRUE, v |-> JSArr(Append(acc, e.v)), next |-> e.next + 1]
        ELSE IF s[e.next] = ","
             THEN ParseElements(s, e.next + 1, Append(acc, e.v))
        ELSE ParseFail

\* the members of an object after "{" or ",": string ":" value ("," ...)* "}"
ParseMembers(s, i, ks, vs) ==
    LET k == ParseString(s, i)
    IN  IF ~k.ok \/ k.next > Len(s) \/ s[k.next] # ":" THEN ParseFail
        ELSE LET e == ParseValue(s, k.next + 1)
             IN  IF ~e.ok \/ e.next > Len(s) THEN ParseFail
                 ELSE IF s[e.next] = "}"
                      THEN [ok |-> TRUE,
                            v |-> JSObj(Append(ks, k.v.s), Append(vs, e.v)),
                            next |-> e.next + 1]
                 ELSE IF s[e.next] = ","
                      THEN ParseMembers(s, e.next + 1, Append(ks, k.v.s),
                                        Append(vs, e.v))
                 ELSE ParseFail

ParseValue(s, i) ==
    IF i > Len(s) THEN ParseFail
    ELSE IF StartsWithAt(s, i, <<"n", "u", "l", "l">>)
         THEN [ok |-> TRUE, v |-> JSNull, next |-> i + 4]
    ELSE IF StartsWithAt(s, i, <<"t", "r", "u", "e">>)
         THEN [ok |-> TRUE, v |-> [t |-> "bool", b |-> TRUE], next |-> i + 4]
    ELSE IF StartsWithAt(s, i, <<"f", "a", "l", "s", "e">>)
         THEN [ok |-> TRUE, v |-> [t |-> "bool", b |-> FALSE], next |-> i + 5]
    ELSE IF s[i] \in Digits
         THEN LET e == DigitsEnd(s, i)
              IN  IF s[i] = "0" /\ e > i + 1 THEN ParseFail
                  ELSE [ok |-> TRUE,
                        v |-> JSNum(DigitsValue(SubSeq(s, i, e - 1), 0)),
                        next |-> e]
    ELSE IF s[i] = "\"" THEN ParseString(s, i)
    ELSE IF s[i] = "["
         THEN IF i + 1 <= Len(s) /\ s[i + 1] = "]"
              THEN [ok |-> TRUE, v |-> JSArr(<<>>), next |-> i + 2]
              ELSE ParseElements(s, i + 1, <<>>)
    ELSE IF s[i] = "{"
         THEN IF i + 1 <= Len(s) /\ s[i + 1] = "}"
              THEN [ok |-> TRUE, v |-> JSObj(<<>>, <<>>), next |-> i + 2]
              ELSE ParseMembers(s, i + 1, <<>>, <<>>)
    ELSE ParseFail

\* response.text when the provider sent no text part
NoText == <<"undefined">>

\* JSON.parse(text): [ok |-> TRUE, v |-> value], or ok FALSE for a SyntaxError.
\* JSON.parse(undefined) parses the text "undefined", a SyntaxError.
JSONparse(text) ==
    IF text = NoText THEN [ok |-> FALSE, v |-> JSUndefined]
    ELSE LET p == ParseValue(text, 1)
         IN  IF p.ok /\ p.next = Len(text) + 1
             THEN [ok |-> TRUE, v |-> p.v]
             ELSE [ok |-> FALSE, v |-> JSUndefined]

\* obj[key] for a parsed value: the last member of that name, else undefined
GetField(v, key) ==
    IF v.t # "obj" THEN JSUndefined
    ELSE LET at == {i \in 1..Len(v.k) : v.k[i] = key}
         IN  IF at = {} THEN JSUndefined ELSE v.v[SetMax(at)]

\* const { key } = JSON.parse(text): [threw |-> TRUE] when the parse throws a
\* SyntaxError or the destructuring of null throws a TypeError
Destructure(text, key) ==
    LET p == JSONparse(text)
    IN  IF ~p.ok \/ p.v.t = "null" THEN [threw |-> TRUE, v |-> JSUndefined]
        ELSE [threw |-> FALSE, v |-> GetField(p.v, key)]

(***************************************************************************)
(* Errors.  ValidationError(message, details) and                          *)
(* AIServiceError(message, originalError) are built at the throw sites     *)
(* below; a message is the sequence of the pieces concatenated with +.     *)
(***************************************************************************)
ValidationError(message, details) ==
    [name |-> "ValidationError", message |-> <<message>>, details |-> details]

AIServiceError(message, originalError) ==
    [name |-> "AIServiceError", message |-> message,
     originalError |-> originalError]

\* a TypeError raised by the runtime: a property read of undefined
TypeError == [name |-> "TypeError"]

Returned(v) == [threw |-> FALSE, v |-> v]

Threw(e) == [threw |-> TRUE, v |-> e]

(***************************************************************************)
(* services/aiService.js: configuration                                    *)
(***************************************************************************)
DEFAULT_MODEL ==
    JSStr(<<"g", "e", "m", "i", "n", "i", "-", "3", "-", "f", "l", "a", "s",
            "h", "-", "p", "r", "e", "v", "i", "e", "w">>)

\* temperature and topP in hundredths
DEFAULT_CONFIG ==
    [temperature |-> JSNum(70), maxOutputTokens |-> JSNum(2048),
     topP |-> JSNum(95), topK |-> JSNum(40)]

RESPONSE_SCHEMAS ==
    [reflectionPrompt |-> [required |-> <<"q", "u", "e", "s", "t", "i", "o", "n">>,
                           type |-> "STRING"],
     writingPrompts |-> [required |-> <<"p", "r", "o", "m", "p", "t", "s">>,
                         type |-> "ARRAY of STRING"],
     affirmation |-> [required |-> <<"a", "f", "f", "i", "r", "m", "a", "t",
                                     "i", "o", "n">>,
                      type |-> "STRING"]]

\* a || b
OrElse(a, b) == IF Falsy(a) THEN b ELSE a

\* a ?? b
Coalesce(a, b) == IF Nullish(a) THEN b ELSE a

(***************************************************************************)
(* services/aiService.js: helpers                                          *)
(***************************************************************************)
validatePromptNoBlankCheck(prompt) ==
    IF ~IsString(prompt)
    THEN Threw(ValidationError("Prompt is required and must be a string",
                               [prompt |-> "A valid text prompt is required"]))
    ELSE Returned(JSUndefined)

validatePrompt(prompt) ==
    IF ~IsString(prompt)
    THEN Threw(ValidationError("Prompt is required and must be a string",
                               [prompt |-> "A valid text prompt is required"]))
    ELSE IF Len(Trim(prompt.s)) = 0
    THEN Threw(ValidationError("Prompt cannot be empty",
                               [prompt |-> "Prompt must contain text"]))
    ELSE Returned(JSUndefined)

\* buildGenerationConfig reading the object that DEFAULT_CONFIG names
buildGenerationConfigFrom(defaults, options) ==
    [temperature |-> OrElse(options.temperature, defaults.temperature),
     maxOutputTokens |->
         OrElse(options.maxOutputTokens, defaults.maxOutputTokens),
     topP |-> Coalesce(options.topP, defaults.topP),
     topK |-> Coalesce(options.topK, defaults.topK),
     systemInstruction |->
         IF Falsy(options.systemInstruction) THEN JSUndefined
         ELSE options.systemInstruction]

buildGenerationConfig(options) ==
    buildGenerationConfigFrom(DEFAULT_CONFIG, options)

\* the catch block of callGeminiAPI: the error thrown for a provider failure
GeminiErrorNo429(error) ==
    IF error.status = JSNum(400)
    THEN AIServiceError(<<"Invalid request to AI service", error.message>>,
                        JSUndefined)
    ELSE IF error.status = JSNum(401) \/ error.status = JSNum(403)
    THEN AIServiceError(
             <<"AI Service authentication failed. Check API key configuration.">>,
             error)
    ELSE AIServiceError(<<"AI Service temporarily unavailable", error.message>>,
                        error)

GeminiErrorNo403(error) ==
    IF error.status = JSNum(429)
    THEN AIServiceError(
             <<"AI service rate limit exceeded. Please, try again later.">>, error)
    ELSE IF error.status = JSNum(400)
    THEN AIServiceError(<<"Invalid request to AI service", error.message>>,
                        JSUndefined)
    ELSE IF error.status = JSNum(401)
    THEN AIServiceError(
             <<"AI Service authentication failed. Check API key configuration.">>,
             error)
    ELSE AIServiceError(<<"AI Service temporarily unavailable", error.message>>,
                        error)

GeminiError(error) ==
    IF error.status = JSNum(429)
    THEN AIServiceError(
             <<"AI service rate limit exceeded. Please, try again later.">>, error)
    ELSE IF error.status = JSNum(400)
    THEN AIServiceError(<<"Invalid request to AI service", error.message>>,
                        JSUndefined)
    ELSE IF error.status = JSNum(401) \/ error.status = JSNum(403)
    THEN AIServiceError(
             <<"AI Service authentication failed. Check API key configuration.">>,
             error)
    ELSE AIServiceError(<<"AI Service temporarily unavailable", error.message>>,
                        error)

\* callGeminiAPI(apiCall) once apiCall has settled with `answer`
callGeminiAPI(answer) ==
    IF answer.kind = "response" THEN Returned(answer)
    ELSE Threw(GeminiError(answer))

\* formatResponse(response): text is response.text || ''
formatResponse(response) ==
    [text |-> IF response.text = NoText THEN <<>> ELSE response.text,
     metadata |-> [parseError |-> FALSE]]

DefaultQuestion ==
    <<"H", "o", "w", " ", "d", "o", " ", "y", "o", "u", " ", "f", "e", "e",
      "l", " ", "r", "e", "a", "d", "i", "n", "g", " ", "t", "h", "i", "s",
      " ", "l", "e", "t", "t", "e", "r", " ", "n", "o", "w", "?">>

\* text.match(/[^.!?]*\?/): the leftmost match, [found, at, to].  From a start
\* i the class [^.!?]* runs greedily up to the first of . ! ? and the match
\* succeeds when that character is ?.
QuestionMatch(text) ==
    LET stop(i) == {j \in i..Len(text) : text[j] \in {".", "!", "?"}}
        starts == {i \in 1..Len(text) :
                      stop(i) # {} /\ text[SetMin(stop(i))] = "?"}
    IN  IF starts = {} THEN [found |-> FALSE, m |-> <<>>]
        ELSE [found |-> TRUE,
              m |-> SubSeq(text, SetMin(starts), SetMin(stop(SetMin(starts))))]

extractQuestionNoEmptyCheck(text) ==
    LET questionMatch == QuestionMatch(IF text = NoText THEN <<>> ELSE text)
    IN  IF questionMatch.found
        THEN Trim(RemoveAll(DropLeadingNot(questionMatch.m, Letters), Quotes))
        ELSE <<>>

extractQuestionFromText(text) ==
    IF text = NoText \/ text = <<>> THEN DefaultQuestion
    ELSE LET questionMatch == QuestionMatch(text)
         IN  IF questionMatch.found
             THEN Trim(RemoveAll(DropLeadingNot(questionMatch.m, Letters),
                                 Quotes))
             ELSE DefaultQuestion

\* parseInt(v, 10): [nan |-> TRUE] or the integer read from the front of
\* String(v), after leading whitespace and an optional sign
RECURSIVE DropLeadingWhitespace(_)
DropLeadingWhitespace(s) ==
    IF s # <<>> /\ Head(s) \in Whitespace THEN DropLeadingWhitespace(Tail(s))
    ELSE s

parseInt(v) ==
    IF v.t = "num" THEN [nan |-> FALSE, n |-> v.n]
    ELSE IF v.t # "str" THEN [nan |-> TRUE, n |-> 0]
    ELSE LET t == DropLeadingWhitespace(v.s)
             neg == t # <<>> /\ Head(t) = "-"
             u == IF t # <<>> /\ Head(t) \in {"-", "+"} THEN Tail(t) ELSE t
             e == DigitsEnd(u, 1)
         IN  IF e = 1 THEN [nan |-> TRUE, n |-> 0]
             ELSE [nan |-> FALSE,
                   n |-> (IF neg THEN -1 ELSE 1)
                         * DigitsValue(SubSeq(u, 1, e - 1), 0)]

\* let promptCount = parseInt(count, 10) || 3, then clamped into 1..5
promptCountNoUpperClamp(count) ==
    LET p == parseInt(count)
        c == IF p.nan \/ p.n = 0 THEN 3 ELSE p.n
    IN  IF c < 1 THEN 1 ELSE c

promptCount(count) ==
    LET p == parseInt(count)
        c == IF p.nan \/ p.n = 0 THEN 3 ELSE p.n
        d == IF c < 1 THEN 1 ELSE c
    IN  IF d > 5 THEN 5 ELSE d

(***************************************************************************)
(* services/aiService.js: sanitizeForPrompt                                *)
(***************************************************************************)
\* text.substring(0, n), n >= 0
Substring0(s, n) == SubSeq(s, 1, IF n < Len(s) THEN n ELSE Len(s))

\* text.replace(/x/g, 'y') for single characters x and y
ReplaceChar(s, from, to) ==
    [i \in 1..Len(s) |-> IF s[i] = from THEN to ELSE s[i]]

\* text.replace(/\n{3,}/g, '\n\n'): each maximal run of three or more
\* newlines becomes two
RECURSIVE CollapseNewlines(_)
CollapseNewlines(s) ==
    IF s = <<>> THEN <<>>
    ELSE IF Head(s) # "\n" THEN <<Head(s)>> \o CollapseNewlines(Tail(s))
    ELSE LET other == {i \in 1..Len(s) : s[i] # "\n"}
             run == IF other = {} THEN Len(s) ELSE SetMin(other) - 1
             kept == IF run >= 3 THEN <<"\n", "\n">> ELSE SubSeq(s, 1, run)
         IN  kept \o CollapseNewlines(SubSeq(s, run + 1, Len(s)))

sanitizeForPromptKeepsBackslash(text, maxLength) ==
    IF Falsy(text) THEN Returned(<<>>)
    ELSE IF ~IsString(text) THEN Threw(TypeError)
    ELSE Returned(Trim(CollapseNewlines(
             ReplaceChar(Substring0(text.s, maxLength), "\"", "'"))))

sanitizeForPromptNoCollapse(text, maxLength) ==
    IF Falsy(text) THEN Returned(<<>>)
    ELSE IF ~IsString(text) THEN Threw(TypeError)
    ELSE Returned(Trim(RemoveAll(
             ReplaceChar(Substring0(text.s, maxLength), "\"", "'"), {"\\"})))

\* a truthy text that is not a string has no substring method
sanitizeForPrompt(text, maxLength) ==
    IF Falsy(text) THEN Returned(<<>>)
    ELSE IF ~IsString(text) THEN Threw(TypeError)
    ELSE Returned(Trim(CollapseNewlines(RemoveAll(
             ReplaceChar(Substring0(text.s, maxLength), "\"", "'"), {"\\"}))))

(***************************************************************************)
(* services/aiService.js: extractThemes                                    *)
(***************************************************************************)
UpperCase ==
    <<"A", "B", "C", "D", "E", "F", "G", "H", "I", "J", "K", "L", "M",
      "N", "O", "P", "Q", "R", "S", "T", "U", "V", "W", "X", "Y", "Z">>

LowerCase ==
    <<"a", "b", "c", "d", "e", "f", "g", "h", "i", "j", "k", "l", "m",
      "n", "o", "p", "q", "r", "s", "t", "u", "v", "w", "x", "y", "z">>

\* content.toLowerCase()
toLowerCase(s) ==
    [i \in 1..Len(s) |->
        IF \E j \in 1..Len(UpperCase) : UpperCase[j] = s[i]
        THEN LowerCase[CHOOSE j \in 1..Len(UpperCase) : UpperCase[j] = s[i]]
        ELSE s[i]]

\* text.includes(k)
Includes(s, k) ==
    \E i \in 1..(Len(s) - Len(k) + 1) : SubSeq(s, i, i + Len(k) - 1) = k

\* the ten if statements, in order: the keywords tested and the label pushed
ThemeGroups ==
    <<
      [keywords |-> <<<<"g", "o", "a", "l">>,
                     <<"a", "c", "h", "i", "e", "v", "e">>,
                     <<"a", "c", "c", "o", "m", "p", "l", "i", "s", "h">>>>,
       label |-> <<"g", "o", "a", "l", "s", " ", "a", "n", "d", " ", "a", "s", "p", "i", "r", "a", "t", "i", "o", "n", "s">>],
      [keywords |-> <<<<"w", "o", "r", "k">>,
                     <<"c", "a", "r", "e", "e", "r">>,
                     <<"j", "o", "b">>>>,
       label |-> <<"c", "a", "r", "e", "e", "r">>],
      [keywords |-> <<<<"f", "a", "m", "i", "l", "y">>,
                     <<"r", "e", "l", "a", "t", "i", "o", "n", "s", "h", "i", "p">>,
                     <<"f", "r", "i", "e", "n", "d">>>>,
       label |-> <<"r", "e", "l", "a", "t", "i", "o", "n", "s", "h", "i", "p", "s">>],
      [keywords |-> <<<<"h", "e", "a", "l", "t", "h">>,
                     <<"e", "x", "e", "r", "c", "i", "s", "e">>,
                     <<"f", "i", "t", "n", "e", "s", "s">>>>,
       label |-> <<"h", "e", "a", "l", "t", "h", " ", "a", "n", "d", " ", "w", "e", "l", "l", "n", "e", "s", "s">>],
      [keywords |-> <<<<"h", "a", "p", "p", "y">>,
                     <<"j", "o", "y">>,
                     <<"e", "x", "c", "i", "t", "e", "d">>>>,
       label |-> <<"h", "a", "p", "p", "i", "n", "e", "s", "s">>],
      [keywords |-> <<<<"s", "t", "r", "e", "s", "s">>,
                     <<"a", "n", "x", "i", "o", "u", "s">>,
                     <<"w", "o", "r", "r", "i", "e", "d">>>>,
       label |-> <<"m", "a", "n", "a", "g", "i", "n", "g", " ", "s", "t", "r", "e", "s", "s">>],
      [keywords |-> <<<<"l", "e", "a", "r", "n">>,
                     <<"g", "r", "o", "w">>,
                     <<"i", "m", "p", "r", "o", "v", "e">>>>,
       label |-> <<"p", "e", "r", "s", "o", "n", "a", "l", " ", "g", "r", "o", "w", "t", "h">>],
      [keywords |-> <<<<"f", "o", "c", "u", "s">>,
                     <<"p", "r", "o", "d", "u", "c", "t", "i", "v", "e">>,
                     <<"d", "i", "s", "c", "i", "p", "l", "i", "n", "e">>>>,
       label |-> <<"f", "o", "c", "u", "s", " ", "a", "n", "d", " ", "p", "r", "o", "d", "u", "c", "t", "i", "v", "i", "t", "y">>],
      [keywords |-> <<<<"g", "r", "a", "t", "e", "f", "u", "l">>,
                     <<"t", "h", "a", "n", "k", "f", "u", "l">>,
                     <<"a", "p", "p", "r", "e", "c", "i", "a", "t", "e">>>>,
       label |-> <<"g", "r", "a", "t", "i", "t", "u", "d", "e">>],
      [keywords |-> <<<<"l", "o", "v", "e">>,
                     <<"p", "a", "r", "t", "n", "e", "r">>,
                     <<"d", "a", "t", "i", "n", "g">>>>,
       label |-> <<"l", "o", "v", "e", " ", "l", "i", "f", "e">>]>>

PersonalReflection == <<"p", "e", "r", "s", "o", "n", "a", "l", " ", "r", "e", "f", "l", "e", "c", "t", "i", "o", "n">>

SelfReflection ==
    <<"s", "e", "l", "f", "-", "r", "e", "f", "l", "e", "c", "t", "i", "o", "n", " ", "a", "n", "d", " ", "p", "e", "r", "s", "o", "n", "a", "l", " ", "t", "h", "o", "u", "g", "h", "t", "s">>

\* the themes pushed by the if statements from group g on
RECURSIVE DetectThemes(_, _)
DetectThemes(lowerContent, g) ==
    IF g > Len(ThemeGroups) THEN <<>>
    ELSE (IF \E j \in 1..Len(ThemeGroups[g].keywords) :
                 Includes(lowerContent, ThemeGroups[g].keywords[j])
          THEN <<ThemeGroups[g].label>>
          ELSE <<>>)
         \o DetectThemes(lowerContent, g + 1)

\* array.join(sep)
RECURSIVE JoinWith(_, _)
JoinWith(a, sep) ==
    IF a = <<>> THEN <<>>
    ELSE IF Len(a) = 1 THEN a[1]
    ELSE a[1] \o sep \o JoinWith(Tail(a), sep)

extractThemesAllMatches(content) ==
    IF Falsy(content) THEN PersonalReflection
    ELSE LET themes == DetectThemes(toLowerCase(content.s), 1)
         IN  IF Len(themes) > 0
             THEN JoinWith(themes, <<",", " ">>)
             ELSE SelfReflection

extractThemes(content) ==
    IF Falsy(content) THEN PersonalReflection
    ELSE LET themes == DetectThemes(toLowerCase(content.s), 1)
         IN  IF Len(themes) > 0
             THEN JoinWith(Slice0(themes, 3), <<",", " ">>)
             ELSE SelfReflection

(***************************************************************************)
(* services/aiService.js: getTimeSinceWritten.  Times are counted in whole *)
(* hours: floor(ms / (1000*60*60*24)) = floor(floor(ms / (1000*60*60)) /   *)
(* 24), and the hours of several years fit the integers of the checker.    *)
(***************************************************************************)
HoursPerDay == 24

JSDate(h) == [t |-> "date", h |-> h]

DigitChars == <<"0", "1", "2", "3", "4", "5", "6", "7", "8", "9">>

\* `${n}` for an integer n >= 0
RECURSIVE Decimal(_)
Decimal(n) ==
    IF n < 10 THEN <<DigitChars[n + 1]>>
    ELSE Decimal(n \div 10) \o <<DigitChars[(n % 10) + 1]>>

SomeTime == <<"s", "o", "m", "e", " ", "t", "i", "m", "e">>

DayUnit == <<"d", "a", "y">>

WeekUnit == <<"w", "e", "e", "k">>

MonthUnit == <<"m", "o", "n", "t", "h">>

YearUnit == <<"y", "e", "a", "r">>

\* `${n} unit${n !== 1 ? 's' : ''}`
Counted(n, unit) ==
    Decimal(n) \o <<" ">> \o unit \o (IF n # 1 THEN <<"s">> ELSE <<>>)

getTimeSinceWrittenWeekAfterSeven(createdAt, now) ==
    IF createdAt.t # "date" THEN SomeTime
    ELSE LET diffDays == (now.h - createdAt.h) \div HoursPerDay
         IN  IF diffDays <= 7 THEN Counted(diffDays, DayUnit)
             ELSE IF diffDays < 30 THEN Counted(diffDays \div 7, WeekUnit)
             ELSE IF diffDays < 365 THEN Counted(diffDays \div 30, MonthUnit)
             ELSE Counted(diffDays \div 365, YearUnit)

\* createdAt is a Date of the store (always truthy), undefined or null;
\* now is new Date() at the call
getTimeSinceWritten(createdAt, now) ==
    IF createdAt.t # "date" THEN SomeTime
    ELSE LET diffDays == (now.h - createdAt.h) \div HoursPerDay
         IN  IF diffDays < 7 THEN Counted(diffDays, DayUnit)
             ELSE IF diffDays < 30 THEN Counted(diffDays \div 7, WeekUnit)
             ELSE IF diffDays < 365 THEN Counted(diffDays \div 30, MonthUnit)
             ELSE Counted(diffDays \div 365, YearUnit)

(***************************************************************************)
(* services/aiService.js: formatGoalsForPrompt                             *)
(***************************************************************************)
Pending == <<"p", "e", "n", "d", "i", "n", "g">>

GoalsHeader ==
    <<"G", "o", "a", "l", "s", " ", "s", "e", "t", " ", "i", "n", " ", "t",
      "h", "i", "s", " ", "l", "e", "t", "t", "e", "r", ":">>

\* `- ${g.text}${status}` with the status in parentheses for every goal
GoalLineAlwaysStatus(g) ==
    <<"-", " ">> \o g.text \o <<" ", "(">> \o g.status \o <<")">>

\* `- ${g.text}${status}`, status being ` (${g.status})` unless it is 'pending'
GoalLine(g) ==
    <<"-", " ">> \o g.text
        \o (IF g.status # Pending
            THEN <<" ", "(">> \o g.status \o <<")">>
            ELSE <<>>)

\* goals is undefined, null or an array of { text, status }
formatGoalsForPrompt(goals) ==
    IF Falsy(goals) \/ Len(goals.a) = 0 THEN <<>>
    ELSE GoalsHeader \o <<"\n">>
         \o JoinWith([i \in 1..Len(goals.a) |-> GoalLine(goals.a[i])], <<"\n">>)

(***************************************************************************)
(* services/aiService.js: the instruction texts.  A text built by a        *)
(* template literal is the concatenation of the literal's fixed segments,  *)
(* each held as one element, and of the interpolated texts, held character *)
(* by character.                                                           *)
(***************************************************************************)
Untitled == <<"U", "n", "t", "i", "t", "l", "e", "d">>

\* letter.mood ? `Mood: ${letter.mood}` : ''
MoodContext(mood) == IF Falsy(mood) THEN <<>> ELSE <<"Mood: ">> \o mood.s

ReflectionSystemInstruction ==
    <<"You create reflection questions for a journaling app. Users wrote letters to their future selves and are now reading them.\n\nRules:\n- Create ONE question that helps them reflect on their growth\n- Keep it 15-25 words\n- Never use quotation marks\n- Never quote the letter directly\n- Paraphrase themes in your own words">>

\* a userPrompt that would state the elapsed hours instead of the phrase
ReflectionUserPromptElapsedHours(l, now) ==
    <<"Letter details:\n- Written: ">>
        \o (IF l.createdAt.t = "date" THEN Decimal(now.h - l.createdAt.h)
            ELSE SomeTime)
        \o <<" ago\n- Title: ">>
        \o sanitizeForPrompt(OrElse(l.title, JSStr(Untitled)), 100).v
        \o <<"\n">> \o MoodContext(l.mood)
        \o <<"\n">> \o formatGoalsForPrompt(l.goals)
        \o <<"\n- Key themes: ">> \o extractThemes(JSStr(l.content))
        \o <<"\n\nCreate a reflection question about these themes.">>

\* a userPrompt that would quote the letter after its themes
ReflectionUserPromptWithContent(l, now) ==
    <<"Letter details:\n- Written: ">>
        \o getTimeSinceWritten(l.createdAt, now)
        \o <<" ago\n- Title: ">>
        \o sanitizeForPrompt(OrElse(l.title, JSStr(Untitled)), 100).v
        \o <<"\n">> \o MoodContext(l.mood)
        \o <<"\n">> \o formatGoalsForPrompt(l.goals)
        \o <<"\n- Key themes: ">> \o extractThemes(JSStr(l.content))
        \o <<"\n">> \o l.content
        \o <<"\n\nCreate a reflection question about these themes.">>

\* userPrompt of generateReflectionPrompt; now is new Date() inside
\* getTimeSinceWritten
ReflectionUserPrompt(l, now) ==
    <<"Letter details:\n- Written: ">>
        \o getTimeSinceWritten(l.createdAt, now)
        \o <<" ago\n- Title: ">>
        \o sanitizeForPrompt(OrElse(l.title, JSStr(Untitled)), 100).v
        \o <<"\n">> \o MoodContext(l.mood)
        \o <<"\n">> \o formatGoalsForPrompt(l.goals)
        \o <<"\n- Key themes: ">> \o extractThemes(JSStr(l.content))
        \o <<"\n\nCreate a reflection question about these themes.">>

\* systemInstruction of generateWritingPrompts
WritingSystemInstruction(count) ==
    <<"You are a creative writing coach for SoulMail, a journaling app where users write letters to their future selves. Generate inspiring, thought-provoking writing prompts.\n\nGuidelines:\n- Create prompts that encourage self-reflection and personal growth\n- Make prompts open-ended and inviting\n- Vary the depth and tone of prompts\n- Include prompts about hopes, dreams, current feelings, gratitude, lessons learned\n- Keep each prompt to 1-2 sentences\n- Do NOT number the prompts\n- Separate each prompt with \"---\"\n- Generate exactly ">>
        \o Decimal(count) \o <<" prompts">>

\* userPrompt of generateWritingPrompts
WritingUserPrompt(options) ==
    <<"Generate ">> \o Decimal(options.count)
        \o <<" unique writing prompts for someone writing a letter to their future self.\n">>
        \o (IF Falsy(options.mood) THEN <<>>
            ELSE <<"The user's current mood is: ">> \o options.mood.s)
        \o <<"\n">>
        \o (IF Falsy(options.theme) THEN <<>>
            ELSE <<"They're interested in writing about: ">> \o options.theme.s)
        \o <<"\n\nThe prompts should inspire meaningful self-expression and reflection.">>

\* greetings[timeOfDay] || ''
getTimeBasedGreeting(timeOfDay) ==
    IF timeOfDay = JSStr(<<"m", "o", "r", "n", "i", "n", "g">>)
    THEN <<"It is morning, a fresh start to the day.">>
    ELSE IF timeOfDay = JSStr(<<"a", "f", "t", "e", "r", "n", "o", "o", "n">>)
    THEN <<"It is afternoon.">>
    ELSE IF timeOfDay = JSStr(<<"e", "v", "e", "n", "i", "n", "g">>)
    THEN <<"It is evening, winding down for the day.">>
    ELSE IF timeOfDay = JSStr(<<"n", "i", "g", "h", "t">>)
    THEN <<"It is night time.">>
    ELSE <<>>

\* stats is undefined or an object with three counters
formatStatsForAffirmation(stats) ==
    IF Falsy(stats) THEN <<>>
    ELSE JoinWith(
             (IF stats.currentStreak > 0
              THEN <<<<"They have a ">> \o Decimal(stats.currentStreak)
                         \o <<"-day writing streak.">>>>
              ELSE <<>>)
             \o (IF stats.totalLetters > 0
                 THEN <<<<"They have written ">> \o Decimal(stats.totalLetters)
                            \o <<" letter">>
                            \o (IF stats.totalLetters # 1 THEN <<"s">> ELSE <<>>)
                            \o <<".">>>>
                 ELSE <<>>)
             \o (IF stats.goalsAccomplished > 0
                 THEN <<<<"They have accomplished ">>
                            \o Decimal(stats.goalsAccomplished) \o <<" goal">>
                            \o (IF stats.goalsAccomplished # 1 THEN <<"s">>
                                ELSE <<>>)
                            \o <<".">>>>
                 ELSE <<>>),
             <<" ">>)

\* systemInstruction of generateAffirmation (its accented e written e)
AffirmationSystemInstruction ==
    <<"You are an uplifting, warm presence in SoulMail, a self-reflection journaling app. Generate a single positive affirmation to greet the user.\n\nGuidelines:\n- Be genuine and warm, not generic or cliche\n- Keep it brief (1-2 sentences)\n- Focus on self-worth, growth, capability, or the present moment\n- If the user's name is provided, use it naturally (not forced)\n- Match the tone to the time of day\n- Never be preachy or condescending\n- Avoid starting with \"Remember that...\" or similar phrases">>

\* userPrompt of generateAffirmation
AffirmationUserPrompt(options) ==
    <<"Generate a positive affirmation for a user opening the app.\n">>
        \o getTimeBasedGreeting(options.timeOfDay)
        \o <<"\n">>
        \o (IF Falsy(options.username) THEN <<>>
            ELSE <<"The user's name is ">> \o options.username.s \o <<".">>)
        \o <<"\n">> \o formatStatsForAffirmation(options.stats)
        \o <<"\n\nCreate a warm, encouraging message that makes them feel valued and capable.">>

(***************************************************************************)
(* services/aiService.js: the public functions.  Each is cut at its one    *)
(* await: the part that runs up to the provider call, and the part that    *)
(* runs on the provider's response.                                        *)
(***************************************************************************)
\* generateContent up to the call: the request handed to the provider
generateContentCall(prompt, options) ==
    LET v == validatePrompt(prompt)
    IN  IF v.threw THEN v
        ELSE Returned([model |-> OrElse(options.model, DEFAULT_MODEL),
                       contents |-> prompt,
                       config |-> buildGenerationConfig(options)])

\* !letter || !letter.content
NoContent(l) == l.content = <<>>

generateReflectionPromptCall(l, now) ==
    IF NoContent(l)
    THEN Threw(ValidationError(
                   "Letter content is required to generate a reflection prompt",
                   [letter |-> "A valid letter with content is required"]))
    ELSE Returned([model |-> DEFAULT_MODEL,
                   contents |-> ReflectionUserPrompt(l, now),
                   config |-> [systemInstruction |-> ReflectionSystemInstruction,
                               temperature |-> JSNum(70),
                               responseMimeType |-> "application/json",
                               responseSchema |-> RESPONSE_SCHEMAS.reflectionPrompt]])

generateWritingPromptsCall(options) ==
    Returned([model |-> DEFAULT_MODEL,
              contents |-> WritingUserPrompt(options),
              config |-> [systemInstruction |->
                              WritingSystemInstruction(options.count),
                          temperature |-> JSNum(90),
                          responseMimeType |-> "application/json",
                          responseSchema |-> RESPONSE_SCHEMAS.writingPrompts]])

generateAffirmationCall(options) ==
    Returned([model |-> DEFAULT_MODEL,
              contents |-> AffirmationUserPrompt(options),
              config |-> [systemInstruction |-> AffirmationSystemInstruction,
                          temperature |-> JSNum(85),
                          responseMimeType |-> "application/json",
                          responseSchema |-> RESPONSE_SCHEMAS.affirmation]])

\* the try/catch after the call, lines 133-151
generateReflectionPromptParse(response) ==
    LET d == Destructure(response.text, RESPONSE_SCHEMAS.reflectionPrompt.required)
    IN  IF ~d.threw
        THEN Returned([prompt |-> d.v, metadata |-> [parseError |-> FALSE]])
        ELSE Returned([prompt |-> JSStr(extractQuestionFromText(response.text)),
                       metadata |-> [parseError |-> TRUE]])

FallbackPromptsKeepsFive(text) == LongerThan(TrimEach(Split(text, "\n")), 4)

\* response.text.split('\n').map(p => p.trim()).filter(p => p.length > 5)
FallbackPrompts(text) == LongerThan(TrimEach(Split(text, "\n")), 5)

StrArray(a) == JSArr([i \in 1..Len(a) |-> JSStr(a[i])])

\* the try/catch after the call, lines 229-251; reading .split of an absent
\* text inside the catch block throws a TypeError out of the function
generateWritingPromptsParse(response, count) ==
    LET d == Destructure(response.text, RESPONSE_SCHEMAS.writingPrompts.required)
    IN  IF ~d.threw
        THEN Returned([prompts |-> d.v, metadata |-> [parseError |-> FALSE]])
        ELSE IF response.text = NoText THEN Threw(TypeError)
        ELSE Returned([prompts |->
                           StrArray(Slice0(FallbackPrompts(response.text), count)),
                       metadata |-> [parseError |-> TRUE]])

generateAffirmationParseNoTrim(response) ==
    LET d == Destructure(response.text, RESPONSE_SCHEMAS.affirmation.required)
    IN  IF ~d.threw
        THEN Returned([affirmation |-> d.v, metadata |-> [parseError |-> FALSE]])
        ELSE IF response.text = NoText THEN Threw(TypeError)
        ELSE Returned([affirmation |-> JSStr(response.text),
                       metadata |-> [parseError |-> TRUE]])

\* the try/catch after the call, lines 297-313; reading .trim of an absent
\* text inside the catch block throws a TypeError out of the function
generateAffirmationParse(response) ==
    LET d == Destructure(response.text, RESPONSE_SCHEMAS.affirmation.required)
    IN  IF ~d.threw
        THEN Returned([affirmation |-> d.v, metadata |-> [parseError |-> FALSE]])
        ELSE IF response.text = NoText THEN Threw(TypeError)
        ELSE Returned([affirmation |-> JSStr(Trim(response.text)),
                       metadata |-> [parseError |-> TRUE]])

(***************************************************************************)
(* The inputs the model draws from                                         *)
(***************************************************************************)
\* longest raw count text of a writing-prompts query
MaxCountLen == 3

\* longest raw provider text handed to extractQuestionFromText on its own
MaxTextLen == 4

StringsUpTo(alphabet, n) == UNION {[1..k -> alphabet] : k \in 0..n}

PromptInputs ==
    {JSUndefined, JSNum(5), JSStr(<<>>), JSStr(<<" ", "\n">>),
     JSStr(<<"h", "i">>)}

GenerateBodies ==
    [prompt : PromptInputs,
     systemInstruction : {JSUndefined},
     model : {JSUndefined},
     temperature : {JSUndefined, JSNum(0), JSNum(150), JSNum(500)},
     maxOutputTokens : {JSUndefined, JSNum(256), JSNum(-1)},
     topP : {JSUndefined, JSNum(50)},
     topK : {JSUndefined, JSNum(10)}]

LetterIds == {JSUndefined, JSStr(<<>>), JSStr(<<"L", "1">>)}

LetterRecords ==
    [_id : {JSStr(<<"L", "1">>)},
     isDelivered : BOOLEAN,
     content : {<<>>, <<"g", "o", "a", "l">>},
     title : {JSStr(<<"H", "i">>)},
     mood : {JSUndefined},
     goals : {JSUndefined},
     createdAt : {JSDate(0)}]

\* new Date() when the reflection prompt is built: three and eight days after
\* the letters were written
Clock == {JSDate(3 * HoursPerDay), JSDate(8 * HoursPerDay)}

CountInputs ==
    {JSUndefined}
    \cup {JSStr(s) : s \in StringsUpTo({"0", "1", "6", "-", "a", " "}, MaxCountLen)}

WritingQueries == [count : CountInputs, mood : {JSUndefined}, theme : {JSUndefined}]

AffirmationQueries == [timeOfDay : {JSUndefined, JSStr(<<"m", "o", "r", "n", "i", "n", "g">>)}]

Users ==
    {[name |-> JSUndefined, username |-> JSStr(<<"A", "n", "n">>),
      stats |-> JSUndefined],
     [name |-> JSStr(<<"A", "l">>), username |-> JSStr(<<"a", "l">>),
      stats |-> [t |-> "obj", currentStreak |-> 2, totalLetters |-> 1,
                 goalsAccomplished |-> 0]]}

ProviderTexts ==
    {NoText,
     <<>>,
     <<"n", "u", "l", "l">>,
     <<"{", "}">>,
     <<"H", "m", "!", " ", "W", "h", "y", "?">>,
     <<"a", "\n", "D", "r", "e", "a", "m", " ", "b", "i", "g", " ", "n", "o",
       "w", "\n", "G", "o">>,
     <<"{", "\"", "q", "u", "e", "s", "t", "i", "o", "n", "\"", ":", "\"",
       "W", "h", "y", "?", "\"", "}">>,
     <<"{", "\"", "q", "u", "e", "s", "t", "i", "o", "n", "\"", ":", "\"",
       "W", "h">>,
     <<"{", "\"", "q", "u", "e", "s", "t", "i", "o", "n", "\"", ":", "5", "}">>,
     <<"{", "\"", "p", "r", "o", "m", "p", "t", "s", "\"", ":", "[", "\"",
       "D", "r", "e", "a", "m", " ", "b", "i", "g", "\"", ",", "\"", "G",
       "o", "\"", "]", "}">>,
     <<"{", "\"", "a", "f", "f", "i", "r", "m", "a", "t", "i", "o", "n", "\"",
       ":", "\"", "Y", "o", "u", " ", "c", "a", "n", "\"", "}">>}

ProviderResponses == [kind : {"response"}, text : ProviderTexts]

ProviderStatuses ==
    {JSNum(429), JSNum(400), JSNum(401), JSNum(403), JSNum(404), JSNum(500),
     JSUndefined}

ProviderFailures ==
    [kind : {"failure"}, status : ProviderStatuses,
     message : {"provider says no"}]

(***************************************************************************)
(* The request: Init is a server with no request in progress               *)
(***************************************************************************)
Idle ==
    /\ pc = "idle"
    /\ req = None
    /\ letter = None
    /\ sent = None
    /\ providerCalls = 0
    /\ storeLookups = 0
    /\ providerAnswer = None
    /\ result = None
    /\ outcome = None

Init == Idle /\ fnIn = None /\ fnOut = None

\* asyncHandler: a rejection of the handler goes to next(error)
Fail(error) ==
    /\ pc' = "done"
    /\ outcome' = [type |-> "error", error |-> error]

\* res.status(200).json({ success: true, data })
Respond(data) ==
    /\ pc' = "done"
    /\ outcome' = [type |-> "envelope", success |-> TRUE, data |-> data]

\* ai.models.generateContent(request) is issued and the handler suspends
CallProvider(request) ==
    /\ pc' = "calling"
    /\ sent' = request
    /\ providerCalls' = providerCalls + 1
    /\ outcome' = outcome

\* POST /ai/generate, up to the await of the provider call
generate(body) ==
    /\ pc = "idle"
    /\ LET options == [systemInstruction |-> body.systemInstruction,
                       model |-> body.model,
                       temperature |-> body.temperature,
                       maxOutputTokens |-> body.maxOutputTokens,
                       topP |-> JSUndefined,
                       topK |-> JSUndefined]
           c == generateContentCall(body.prompt, options)
       IN  /\ req' = [entry |-> "generate", body |-> body, options |-> options]
           /\ IF c.threw
              THEN Fail(c.v) /\ UNCHANGED <<sent, providerCalls>>
              ELSE CallProvider(c.v)
    /\ UNCHANGED <<letter, storeLookups, providerAnswer, result, fnIn, fnOut>>

\* if (!letterId)
NoLetterId(letterId) == Falsy(letterId)

\* POST /ai/reflection-prompt, up to the await of letterService.getLetterById
getReflectionPrompt(body) ==
    /\ pc = "idle"
    /\ req' = [entry |-> "reflection", body |-> body]
    /\ IF NoLetterId(body.letterId)
       THEN /\ Fail(ValidationError("Letter ID is required",
                                    [letterId |-> "Please provide the letter ID"]))
            /\ UNCHANGED storeLookups
       ELSE /\ pc' = "fetching"
            /\ storeLookups' = storeLookups + 1
            /\ outcome' = outcome
    /\ UNCHANGED <<letter, sent, providerCalls, providerAnswer, result, fnIn, fnOut>>

NotDeliveredUnchecked(l) == FALSE

\* if (!letter.isDelivered)
NotDelivered(l) == ~l.isDelivered

\* getLetterById resolved: the delivered check, then generateReflectionPrompt
\* up to the await of the provider call
getLetterByIdResolves(l, now) ==
    /\ pc = "fetching"
    /\ letter' = l
    /\ IF NotDelivered(l)
       THEN /\ Fail(ValidationError(
                        "Reflection prompts are only available for delivered letters",
                        [letterId |-> "This letter has not been delivered yet"]))
            /\ UNCHANGED <<sent, providerCalls>>
       ELSE LET c == generateReflectionPromptCall(l, now)
            IN  IF c.threw
                THEN Fail(c.v) /\ UNCHANGED <<sent, providerCalls>>
                ELSE CallProvider(c.v)
    /\ UNCHANGED <<req, storeLookups, providerAnswer, result, fnIn, fnOut>>

\* getLetterById rejected (not found, not the caller's): the rejection reaches
\* asyncHandler as it is
getLetterByIdRejects ==
    /\ pc = "fetching"
    /\ letter' = [rejected |-> TRUE]
    /\ Fail([name |-> "LetterServiceError"])
    /\ UNCHANGED <<req, sent, providerCalls, storeLookups, providerAnswer,
                   result, fnIn, fnOut>>

\* GET /ai/writing-prompts, up to the await of the provider call
getWritingPrompts(query) ==
    /\ pc = "idle"
    /\ LET options == [mood |-> query.mood, theme |-> query.theme,
                       count |-> promptCount(query.count)]
       IN  /\ req' = [entry |-> "writing", query |-> query, options |-> options]
           /\ CallProvider(generateWritingPromptsCall(options).v)
    /\ UNCHANGED <<letter, storeLookups, providerAnswer, result, fnIn, fnOut>>

\* GET /ai/affirmation, up to the await of the provider call
getAffirmation(query, user) ==
    /\ pc = "idle"
    /\ LET options == [username |-> OrElse(user.name, user.username),
                       timeOfDay |-> query.timeOfDay,
                       stats |-> user.stats]
       IN  /\ req' = [entry |-> "affirmation", query |-> query, options |-> options]
           /\ CallProvider(generateAffirmationCall(options).v)
    /\ UNCHANGED <<letter, storeLookups, providerAnswer, result, fnIn, fnOut>>

\* what the aiService function does with the provider's response
ServiceReturn(response) ==
    CASE req.entry = "generate" -> Returned(formatResponse(response))
      [] req.entry = "reflection" -> generateReflectionPromptParse(response)
      [] req.entry = "writing" ->
             generateWritingPromptsParse(response, req.options.count)
      [] req.entry = "affirmation" -> generateAffirmationParse(response)

\* the data of the handler's envelope
EnvelopeData(r) ==
    CASE req.entry = "generate" -> r
      [] req.entry = "reflection" -> [prompt |-> r.prompt, letterId |-> letter._id]
      [] req.entry = "writing" -> [prompts |-> r.prompts]
      [] req.entry = "affirmation" -> [affirmation |-> r.affirmation]

\* the provider call resolved: callGeminiAPI returns the response, the service
\* function interprets it and the handler sends the envelope
ProviderResolves(response) ==
    /\ pc = "calling"
    /\ providerAnswer' = response
    /\ LET r == ServiceReturn(callGeminiAPI(response).v)
       IN  IF r.threw
           THEN Fail(r.v) /\ UNCHANGED result
           ELSE result' = r.v /\ Respond(EnvelopeData(r.v))
    /\ UNCHANGED <<req, letter, sent, providerCalls, storeLookups, fnIn, fnOut>>

ProviderRejectsWithFallback(error) ==
    /\ pc = "calling"
    /\ providerAnswer' = error
    /\ LET r == [text |-> <<>>, metadata |-> [parseError |-> TRUE]]
       IN  result' = r /\ Respond(r)
    /\ UNCHANGED <<req, letter, sent, providerCalls, storeLookups, fnIn, fnOut>>

ProviderRejectsAndCallsAgain(error) ==
    /\ pc = "calling"
    /\ providerAnswer' = error
    /\ pc' = "calling"
    /\ UNCHANGED <<req, letter, sent, providerCalls, storeLookups, result,
                   outcome, fnIn, fnOut>>

ProviderRejectsRetry(error) ==
    /\ pc = "calling"
    /\ providerAnswer' = error
    /\ IF error.status = JSNum(429) /\ providerCalls < 2
       THEN CallProvider(sent)
       ELSE Fail(callGeminiAPI(error).v) /\ UNCHANGED <<sent, providerCalls>>
    /\ UNCHANGED <<req, letter, storeLookups, result, fnIn, fnOut>>

\* the provider call rejected: callGeminiAPI throws the mapped error, which
\* no service function or handler catches
ProviderRejects(error) ==
    /\ pc = "calling"
    /\ providerAnswer' = error
    /\ Fail(callGeminiAPI(error).v)
    /\ UNCHANGED <<req, letter, sent, providerCalls, storeLookups, result,
                   fnIn, fnOut>>

Next ==
    \/ \E body \in GenerateBodies : generate(body)
    \/ \E body \in [letterId : LetterIds] : getReflectionPrompt(body)
    \/ \E l \in LetterRecords, now \in Clock : getLetterByIdResolves(l, now)
    \/ getLetterByIdRejects
    \/ \E query \in WritingQueries : getWritingPrompts(query)
    \/ \E query \in AffirmationQueries, user \in Users : getAffirmation(query, user)
    \/ \E response \in ProviderResponses : ProviderResolves(response)
    \/ \E error \in ProviderFailures : ProviderRejects(error)

Spec == Init /\ [][Next]_vars

(***************************************************************************)
(* The helper functions on their own: Init draws an argument, the one      *)
(* action applies the function to it.                                      *)
(***************************************************************************)
Applied(v) == [v |-> v]

SamplingOverrides ==
    [temperature : {JSUndefined, JSNull, JSNum(0), JSNum(150), JSNum(200)},
     maxOutputTokens : {JSUndefined, JSNull, JSNum(1), JSNum(256)},
     topP : {JSUndefined, JSNull, JSNum(0), JSNum(50), JSNum(100)},
     topK : {JSUndefined, JSNull, JSNum(0), JSNum(10)},
     systemInstruction : {JSUndefined}]

InitConfig == Idle /\ fnIn \in SamplingOverrides /\ fnOut = None

ApplyBuildGenerationConfig ==
    /\ fnOut = None
    /\ fnOut' = Applied(buildGenerationConfig(fnIn))
    /\ UNCHANGED <<pc, req, letter, sent, providerCalls, storeLookups,
                   providerAnswer, result, outcome, fnIn>>

SpecConfig == InitConfig /\ [][ApplyBuildGenerationConfig]_vars

RawTexts ==
    {NoText} \cup StringsUpTo({"a", "?", "!", ".", "'", " "}, MaxTextLen)

InitExtract == Idle /\ fnIn \in RawTexts /\ fnOut = None

ApplyExtractQuestionFromText ==
    /\ fnOut = None
    /\ fnOut' = Applied(extractQuestionFromText(fnIn))
    /\ UNCHANGED <<pc, req, letter, sent, providerCalls, storeLookups,
                   providerAnswer, result, outcome, fnIn>>

SpecExtract == InitExtract /\ [][ApplyExtractQuestionFromText]_vars

(***************************************************************************)
(* The vocabulary of the properties                                        *)
(***************************************************************************)
\* The error kinds of the specification, read off what the handler's caller
\* sees of an error: its class and the fixed head of its message.
Kind(e) ==
    IF e.name = "ValidationError" THEN "Validation"
    ELSE IF e.name # "AIServiceError" THEN "Unclassified"
    ELSE CASE e.message[1] = "AI service rate limit exceeded. Please, try again later."
                -> "ProviderRateLimited"
           [] e.message[1] = "Invalid request to AI service"
                -> "ProviderBadRequest"
           [] e.message[1] = "AI Service authentication failed. Check API key configuration."
                -> "ProviderAuthFailed"
           [] e.message[1] = "AI Service temporarily unavailable"
                -> "ProviderUnavailable"
           [] OTHER -> "Unclassified"

Entry(e) == req # None /\ req.entry = e

Ended == pc = "done"

EndedWith(kind) ==
    /\ pc = "done"
    /\ outcome.type = "error"
    /\ Kind(outcome.error) = kind

EndedWithEnvelope == pc = "done" /\ outcome.type = "envelope"

ProviderFailedWith(status) ==
    /\ providerAnswer # None
    /\ providerAnswer.kind = "failure"
    /\ providerAnswer.status = status

ProviderReturned == providerAnswer # None /\ providerAnswer.kind = "response"

StructuredEntry == req # None /\ req.entry \in {"reflection", "writing", "affirmation"}

FetchedLetter == letter # None /\ "isDelivered" \in DOMAIN letter

\* a prompt that is missing, not a string, or blank
PromptInvalid(p) ==
    \/ p.t # "str"
    \/ \A i \in 1..Len(p.s) : p.s[i] \in Whitespace

(***************************************************************************)
(* C1: a reflection request whose fetched letter is not delivered ends     *)
(* with a Validation error and never reaches the provider: in every state  *)
(* of such a request the number of provider calls is 0.                    *)
(***************************************************************************)
C1_UndeliveredNeverReachesProvider ==
    (Entry("reflection") /\ FetchedLetter /\ ~letter.isDelivered)
        => /\ providerCalls = 0
           /\ EndedWith("Validation")
           /\ "letterId" \in DOMAIN outcome.error.details

C1_Witness ==
    /\ Entry("reflection")
    /\ FetchedLetter
    /\ ~letter.isDelivered
    /\ letter.content # <<>>
    /\ EndedWith("Validation")
    /\ storeLookups = 1

(***************************************************************************)
(* C2: a freeform request with a missing, non-string or blank prompt, and  *)
(* a reflection request with no letterId, end with a Validation error that *)
(* names the field, with no provider call; the request without a letterId  *)
(* makes no Content Store lookup either.                                   *)
(***************************************************************************)
C2_InvalidInputFailsBeforeAnyCall ==
    /\ (Entry("generate") /\ PromptInvalid(req.body.prompt))
           => /\ EndedWith("Validation")
              /\ "prompt" \in DOMAIN outcome.error.details
              /\ providerCalls = 0
    /\ (Entry("reflection") /\ Nullish(req.body.letterId))
           => /\ EndedWith("Validation")
              /\ "letterId" \in DOMAIN outcome.error.details
              /\ providerCalls = 0
              /\ storeLookups = 0

C2_Witness ==
    /\ Entry("generate")
    /\ req.body.prompt = JSStr(<<" ", "\n">>)
    /\ EndedWith("Validation")
    /\ providerCalls = 0

(***************************************************************************)
(* C3: whatever the entry point, a provider call that fails with status    *)
(* 429 ends the request with a ProviderRateLimited error; no result and no *)
(* success envelope is produced.                                           *)
(***************************************************************************)
C3_RateLimitSurfaces ==
    ProviderFailedWith(JSNum(429))
        => /\ EndedWith("ProviderRateLimited")
           /\ result = None
           /\ ~EndedWithEnvelope

C3_Witness ==
    /\ Entry("affirmation")
    /\ ProviderFailedWith(JSNum(429))
    /\ EndedWith("ProviderRateLimited")

(***************************************************************************)
(* C4: a provider failure is classified by its status: 400 is a            *)
(* ProviderBadRequest whose message includes the provider's message, 401   *)
(* and 403 are ProviderAuthFailed, and every status other than 429, 400,   *)
(* 401 and 403 (or none) is ProviderUnavailable.                           *)
(***************************************************************************)
C4_FailureClassifiedByStatus ==
    (providerAnswer # None /\ providerAnswer.kind = "failure")
        => LET status == providerAnswer.status
               message == outcome.error.message
           IN  /\ Ended /\ outcome.type = "error"
               /\ status = JSNum(400)
                      => /\ Kind(outcome.error) = "ProviderBadRequest"
                         /\ \E i \in 1..Len(message) :
                                message[i] = providerAnswer.message
               /\ status \in {JSNum(401), JSNum(403)}
                      => Kind(outcome.error) = "ProviderAuthFailed"
               /\ status \notin {JSNum(429), JSNum(400), JSNum(401), JSNum(403)}
                      => Kind(outcome.error) = "ProviderUnavailable"

C4_Witness ==
    /\ ProviderFailedWith(JSNum(403))
    /\ EndedWith("ProviderAuthFailed")

(***************************************************************************)
(* C5: buildGenerationConfig, for overrides within the allowed ranges:     *)
(* each of temperature, maxOutputTokens, topP and topK of the merged       *)
(* configuration is the override when it is present and not null, and the  *)
(* fixed default otherwise.                                                *)
(***************************************************************************)
SamplingFields == {"temperature", "maxOutputTokens", "topP", "topK"}

\* C5: every sampling field of the merged configuration is the override when
\* that is present and not null, else the default
C5_OverrideWinsWhenPresent ==
    fnOut # None
        => \A f \in SamplingFields :
               fnOut.v[f] = IF Nullish(fnIn[f]) THEN DEFAULT_CONFIG[f] ELSE fnIn[f]

(***************************************************************************)
(* C6: the count handed to generateWritingPrompts is an integer in 1..5,   *)
(* and an absent or non-numeric raw count gives 3.                         *)
(***************************************************************************)
\* a decimal integer numeral: optional sign and digits, whitespace around it
Numeral(s) ==
    LET t == Trim(s)
        u == IF t # <<>> /\ Head(t) \in {"-", "+"} THEN Tail(t) ELSE t
    IN  u # <<>> /\ \A i \in 1..Len(u) : u[i] \in Digits

\* the text starts, after whitespace and an optional sign, with a digit
LeadingDigits(s) ==
    \E i \in 1..Len(s) :
        /\ s[i] \in Digits
        /\ \A j \in 1..(i - 1) :
               \/ s[j] \in Whitespace
               \/ j = i - 1 /\ s[j] \in {"-", "+"}

Undecodable(text) == ~JSONparse(text).ok

Degraded(r) == r.metadata.parseError

\* C7: an undecodable provider text ends the request with a degraded result,
\* never with an error
C7_UndecodableTextDegrades ==
    (StructuredEntry /\ ProviderReturned /\ Undecodable(providerAnswer.text))
        => /\ EndedWithEnvelope
           /\ result # None
           /\ Degraded(result)

(***************************************************************************)
(* C8: for the same three requests, a result not marked degraded carries   *)
(* the value decoded from the provider text and that value has the shape   *)
(* of the request's schema (a string, or an array of strings); a result    *)
(* marked degraded carries the value of the fallback heuristic.            *)
(***************************************************************************)
Payload(r) ==
    CASE req.entry = "reflection" -> r.prompt
      [] req.entry = "writing" -> r.prompts
      [] req.entry = "affirmation" -> r.affirmation

SchemaField ==
    CASE req.entry = "reflection" -> RESPONSE_SCHEMAS.reflectionPrompt.required
      [] req.entry = "writing" -> RESPONSE_SCHEMAS.writingPrompts.required
      [] req.entry = "affirmation" -> RESPONSE_SCHEMAS.affirmation.required

SchemaShaped(v) ==
    IF req.entry = "writing"
    THEN v.t = "arr" /\ \A i \in 1..Len(v.a) : v.a[i].t = "str"
    ELSE v.t = "str"

FallbackValue(text) ==
    CASE req.entry = "reflection" -> JSStr(extractQuestionFromText(text))
      [] req.entry = "writing" ->
             StrArray(Slice0(FallbackPrompts(text), req.options.count))
      [] req.entry = "affirmation" -> JSStr(Trim(text))

\* C8: degraded results carry the fallback value, the others the decoded,
\* schema-shaped value
C8_DegradedMarksFallback ==
    (StructuredEntry /\ result # None)
        => IF Degraded(result)
           THEN Payload(result) = FallbackValue(providerAnswer.text)
           ELSE /\ JSONparse(providerAnswer.text).ok
                /\ Payload(result)
                       = GetField(JSONparse(providerAnswer.text).v, SchemaField)
                /\ SchemaShaped(Payload(result))

(***************************************************************************)
(* C9: extractQuestionFromText of a text without a question mark, the      *)
(* empty and the absent text included, is the fixed default question.      *)
(***************************************************************************)
HasQuestionMark(text) ==
    text # NoText /\ \E i \in 1..Len(text) : text[i] = "?"

\* C9: without a question mark the result is the default question
C9_NoQuestionMarkGivesDefault ==
    (fnOut # None /\ ~HasQuestionMark(fnIn)) => fnOut.v = DefaultQuestion

C9_Witness ==
    /\ fnIn = <<"a", "!", " ", "a">>
    /\ fnOut = Applied(DefaultQuestion)

(***************************************************************************)
(* C10: extractQuestionFromText of a text with a question mark ends in a   *)
(* question mark, starts with a letter and holds no quote character.       *)
(***************************************************************************)
C10_QuestionIsCleaned ==
    (fnOut # None /\ HasQuestionMark(fnIn))
        => LET q == fnOut.v
           IN  /\ q # <<>>
               /\ q[Len(q)] = "?"
               /\ q[1] \in Letters
               /\ \A i \in 1..Len(q) : q[i] \notin Quotes

(***************************************************************************)
(* generateWritingPrompts on a provider text that is not JSON              *)
(***************************************************************************)
\* most lines of a raw provider text
MaxLines == 3

FallbackLines ==
    {<<>>,
     <<"a">>,
     <<"S", "h", "o", "r", "t">>,
     <<"a", "a", "a", "a", "a", "a">>,
     <<" ", "b", "b", "b", "b", "b", "b", " ">>,
     <<" ", " ", "a", "a", "a", "a", " ">>}

RECURSIVE JoinLines(_)
\* the lines with a line break between each two
JoinLines(ls) ==
    IF Len(ls) = 1 THEN ls[1]
    ELSE ls[1] \o <<"\n">> \o JoinLines(Tail(ls))

LineTexts ==
    {JoinLines(ls) : ls \in UNION {[1..k -> FallbackLines] : k \in 1..MaxLines}}

InitWriting ==
    /\ Idle
    /\ fnIn \in [text : LineTexts, count : 1..5]
    /\ fnOut = None

ApplyGenerateWritingPromptsParse ==
    /\ fnOut = None
    /\ fnOut' = Applied(generateWritingPromptsParse(
                            [kind |-> "response", text |-> fnIn.text], fnIn.count))
    /\ UNCHANGED <<pc, req, letter, sent, providerCalls, storeLookups,
                   providerAnswer, result, outcome, fnIn>>

SpecWriting == InitWriting /\ [][ApplyGenerateWritingPromptsParse]_vars

(***************************************************************************)
(* C11: the writing-prompts fallback returns the first `count` lines of    *)
(* the raw text, in their order, after trimming each line and dropping the *)
(* lines shorter than 6 characters: every prompt has 6 characters or more  *)
(* and there are at most `count` of them.                                  *)
(***************************************************************************)
\* the places a line starts after: 0 and every line break
LineBreaks(text) == {0} \cup {i \in 1..Len(text) : text[i] = "\n"}

\* the line that starts after place b, trimmed
TrimmedLineAfter(text, b) ==
    LET ends == {j \in (b + 1)..Len(text) : text[j] = "\n"} \cup {Len(text) + 1}
    IN  Trim(SubSeq(text, b + 1, SetMin(ends) - 1))

KeptLines(text) == {b \in LineBreaks(text) : Len(TrimmedLineAfter(text, b)) >= 6}

\* the i-th kept line
NthKept(text, i) ==
    CHOOSE b \in KeptLines(text) :
        Cardinality({c \in KeptLines(text) : c < b}) = i - 1

\* C11: the fallback prompts are the first `count` kept lines
C11_FallbackTakesFirstLongLines ==
    fnOut # None
        => LET r == fnOut.v
               kept == Cardinality(KeptLines(fnIn.text))
               n == IF kept < fnIn.count THEN kept ELSE fnIn.count
           IN  /\ ~r.threw
               /\ r.v.metadata.parseError
               /\ r.v.prompts.t = "arr"
               /\ Len(r.v.prompts.a) = n
               /\ \A i \in 1..n :
                      /\ r.v.prompts.a[i]
                             = JSStr(TrimmedLineAfter(fnIn.text, NthKept(fnIn.text, i)))
                      /\ Len(r.v.prompts.a[i].s) >= 6

C11_Witness ==
    /\ fnIn.count = 1
    /\ fnIn.text = <<"S", "h", "o", "r", "t", "\n",
                     " ", "b", "b", "b", "b", "b", "b", " ", "\n",
                     "a", "a", "a", "a", "a", "a">>
    /\ fnOut # None
    /\ fnOut.v.v.prompts = JSArr(<<JSStr(<<"b", "b", "b", "b", "b", "b">>)>>)

(***************************************************************************)
(* generateAffirmation on a provider text that is not JSON                 *)
(***************************************************************************)
PlainTexts == StringsUpTo({"a", " ", "\n", "\t"}, MaxTextLen)

InitAffirmation == Idle /\ fnIn \in PlainTexts /\ fnOut = None

ApplyGenerateAffirmationParse ==
    /\ fnOut = None
    /\ fnOut' = Applied(generateAffirmationParse(
                            [kind |-> "response", text |-> fnIn]))
    /\ UNCHANGED <<pc, req, letter, sent, providerCalls, storeLookups,
                   providerAnswer, result, outcome, fnIn>>

SpecAffirmation == InitAffirmation /\ [][ApplyGenerateAffirmationParse]_vars

(***************************************************************************)
(* C12: the affirmation fallback returns the raw provider text without its *)
(* leading and trailing whitespace, and otherwise unchanged.               *)
(***************************************************************************)
\* r is text without a whitespace prefix and a whitespace suffix, and r itself
\* neither starts nor ends with whitespace
IsTrimOf(r, text) ==
    /\ \E i \in 0..Len(text) :
           \E j \in i..Len(text) :
               /\ r = SubSeq(text, i + 1, j)
               /\ \A k \in 1..i : text[k] \in Whitespace
               /\ \A k \in (j + 1)..Len(text) : text[k] \in Whitespace
    /\ r # <<>> => r[1] \notin Whitespace /\ r[Len(r)] \notin Whitespace

\* C12: the affirmation of the fallback is the trimmed raw text
C12_FallbackAffirmationIsTrimmedText ==
    fnOut # None
        => /\ ~fnOut.v.threw
           /\ fnOut.v.v.metadata.parseError
           /\ fnOut.v.v.affirmation.t = "str"
           /\ IsTrimOf(fnOut.v.v.affirmation.s, fnIn)

C12_Witness ==
    /\ fnIn = <<"\n", "a", " ", "a">>
    /\ fnOut # None
    /\ fnOut.v.v.affirmation = JSStr(<<"a", " ", "a">>)

(***************************************************************************)
(* sanitizeForPrompt on its own                                            *)
(***************************************************************************)
MaxSanLen == 5

\* letter.title as the store gives it: a string, or absent
SanitizeTexts ==
    {JSUndefined, JSNull}
        \cup {JSStr(s) : s \in StringsUpTo({"a", "\"", "\\", "\n"}, MaxSanLen)}

InitSanitize ==
    /\ Idle
    /\ fnIn \in [text : SanitizeTexts, maxLength : 0..MaxSanLen]
    /\ fnOut = None

ApplySanitizeForPrompt ==
    /\ fnOut = None
    /\ fnOut' = Applied(sanitizeForPrompt(fnIn.text, fnIn.maxLength))
    /\ UNCHANGED <<pc, req, letter, sent, providerCalls, storeLookups,
                   providerAnswer, result, outcome, fnIn>>

SpecSanitize == InitSanitize /\ [][ApplySanitizeForPrompt]_vars

(***************************************************************************)
(* C13: the output of sanitizeForPrompt has no double quote and no         *)
(* backslash, and sanitizing the output again with the same maxLength      *)
(* leaves it unchanged.                                                    *)
(***************************************************************************)
Contains(s, c) == \E i \in 1..Len(s) : s[i] = c

\* C13: no double quote, no backslash, idempotent
C13_SanitizeCleansAndIsIdempotent ==
    (fnOut # None /\ ~fnOut.v.threw)
        => /\ ~Contains(fnOut.v.v, "\"")
           /\ ~Contains(fnOut.v.v, "\\")
           /\ sanitizeForPrompt(JSStr(fnOut.v.v), fnIn.maxLength) = fnOut.v

C13_Witness ==
    /\ fnIn = [text |-> JSStr(<<"\"", "\\", "a", "\\", "\"">>), maxLength |-> 4]
    /\ fnOut = Applied(Returned(<<"'", "a">>))

(***************************************************************************)
(* C14: sanitizeForPrompt never throws; an empty or absent text gives the  *)
(* empty string; any other text gives at most maxLength characters, with   *)
(* no three newlines in a row and no whitespace at either end.             *)
(***************************************************************************)
HasNewlineRun(s) ==
    \E i \in 1..(Len(s) - 2) : s[i] = "\n" /\ s[i + 1] = "\n" /\ s[i + 2] = "\n"

C14_WitnessAbsent ==
    /\ fnIn.text = JSUndefined
    /\ fnOut = Applied(Returned(<<>>))

(***************************************************************************)
(* extractThemes on its own                                                *)
(***************************************************************************)
MaxWords == 4

\* words of a letter: one of group 1, one holding a keyword of group 2 inside
\* another word, one each of groups 5, 9 and 10, and one of no group
ContentWords ==
    {<<"G", "o", "a", "l">>,
     <<"n", "e", "t", "w", "o", "r", "k">>,
     <<"j", "o", "y">>,
     <<"g", "r", "a", "t", "e", "f", "u", "l">>,
     <<"L", "O", "V", "E">>,
     <<"c", "a", "t">>}

\* letter.content: absent, empty, or up to MaxWords words
Contents ==
    {JSUndefined, JSNull, JSStr(<<>>)}
        \cup {JSStr(JoinWith(ws, <<" ">>)) :
                 ws \in UNION {[1..k -> ContentWords] : k \in 1..MaxWords}}

InitThemes == Idle /\ fnIn \in Contents /\ fnOut = None

ApplyExtractThemes ==
    /\ fnOut = None
    /\ fnOut' = Applied(extractThemes(fnIn))
    /\ UNCHANGED <<pc, req, letter, sent, providerCalls, storeLookups,
                   providerAnswer, result, outcome, fnIn>>

SpecThemes == InitThemes /\ [][ApplyExtractThemes]_vars

(***************************************************************************)
(* C15: extractThemes lists the labels of the first three keyword groups   *)
(* that match, in group order; content that matches no group gives the     *)
(* generic label.                                                          *)
(***************************************************************************)
\* the groups one of whose keywords occurs in the text, case ignored
MatchedGroups(text) ==
    LET lower == toLowerCase(text)
    IN  {g \in 1..Len(ThemeGroups) :
            \E j \in 1..Len(ThemeGroups[g].keywords) :
                Includes(lower, ThemeGroups[g].keywords[j])}

\* the members of M preceded by fewer than three members of M
FirstThree(M) == {g \in M : Cardinality({h \in M : h < g}) < 3}

Ascending(S) ==
    CHOOSE f \in [1..Cardinality(S) -> S] :
        \A i \in 1..Cardinality(S) : \A j \in 1..Cardinality(S) :
            i < j => f[i] < f[j]

LabelsOf(S) ==
    LET order == Ascending(S)
    IN  JoinWith([i \in 1..Cardinality(S) |-> ThemeGroups[order[i]].label],
                 <<",", " ">>)

\* C15 as stated: whenever no group matches, empty content included, the
\* result is the self-reflection label
C15_NoMatchGivesSelfReflection ==
    fnOut # None
        => LET matched == MatchedGroups(IF IsString(fnIn) THEN fnIn.s ELSE <<>>)
           IN  fnOut.v = IF matched = {} THEN SelfReflection
                         ELSE LabelsOf(FirstThree(matched))

\* C15: absent or empty content gives 'personal reflection'; other content
\* gives the labels of its first three matched groups in group order, or the
\* self-reflection label when no group matches
C15_FirstThreeThemesInGroupOrder ==
    fnOut # None
        => IF Falsy(fnIn) THEN fnOut.v = PersonalReflection
           ELSE LET matched == MatchedGroups(fnIn.s)
                IN  fnOut.v = IF matched = {} THEN SelfReflection
                              ELSE LabelsOf(FirstThree(matched))

C15_Witness ==
    /\ fnIn = JSStr(<<"L", "O", "V", "E", " ", "g", "r", "a", "t", "e", "f", "u", "l", " ", "j", "o", "y", " ", "G", "o", "a", "l">>)
    /\ fnOut = Applied(<<"g", "o", "a", "l", "s", " ", "a", "n", "d", " ", "a", "s", "p", "i", "r", "a", "t", "i", "o", "n", "s", ",", " ", "h", "a", "p", "p", "i", "n", "e", "s", "s", ",", " ", "g", "r", "a", "t", "i", "t", "u", "d", "e">>)

(***************************************************************************)
(* getTimeSinceWritten on its own                                          *)
(***************************************************************************)
MaxDays == 740

\* a letter written at hour 0 or 5, read a whole number of days later or one
\* hour short of the next day; or a letter without createdAt
TimeInputs ==
    {[createdAt |-> JSDate(w), now |-> JSDate(w + d * HoursPerDay + r)] :
         w \in {0, 5}, d \in 0..MaxDays, r \in {0, HoursPerDay - 1}}
        \cup [createdAt : {JSUndefined, JSNull}, now : {JSDate(0)}]

InitTime == Idle /\ fnIn \in TimeInputs /\ fnOut = None

ApplyGetTimeSinceWritten ==
    /\ fnOut = None
    /\ fnOut' = Applied(getTimeSinceWritten(fnIn.createdAt, fnIn.now))
    /\ UNCHANGED <<pc, req, letter, sent, providerCalls, storeLookups,
                   providerAnswer, result, outcome, fnIn>>

SpecTime == InitTime /\ [][ApplyGetTimeSinceWritten]_vars

(***************************************************************************)
(* C16: with d the elapsed whole days, getTimeSinceWritten gives d days    *)
(* below 7, whole weeks below 30, whole 30-day months below 365 and whole  *)
(* 365-day years from there on, the unit singular exactly for 1; without a *)
(* timestamp it gives 'some time'.                                         *)
(***************************************************************************)
\* the k with k whole days elapsed and the next day not yet complete
ElapsedDays ==
    LET hours == fnIn.now.h - fnIn.createdAt.h
    IN  CHOOSE k \in 0..(MaxDays + 1) :
            k * HoursPerDay <= hours /\ hours < (k + 1) * HoursPerDay

\* n units fit in d and n + 1 do not
WholeUnits(d, size) == CHOOSE n \in 0..d : n * size <= d /\ d < (n + 1) * size

Phrase(n, singular, plural) ==
    Decimal(n) \o <<" ">> \o (IF n = 1 THEN singular ELSE plural)

\* C16: the phrase of each bucket, and 'some time' for an absent timestamp
C16_TimeBuckets ==
    fnOut # None
        => IF fnIn.createdAt \in {JSUndefined, JSNull}
           THEN fnOut.v = SomeTime
           ELSE LET d == ElapsedDays
                IN  fnOut.v =
                        IF d < 7
                        THEN Phrase(d, <<"d", "a", "y">>,
                                       <<"d", "a", "y", "s">>)
                        ELSE IF d < 30
                        THEN Phrase(WholeUnits(d, 7), <<"w", "e", "e", "k">>,
                                    <<"w", "e", "e", "k", "s">>)
                        ELSE IF d < 365
                        THEN Phrase(WholeUnits(d, 30),
                                    <<"m", "o", "n", "t", "h">>,
                                    <<"m", "o", "n", "t", "h", "s">>)
                        ELSE Phrase(WholeUnits(d, 365),
                                    <<"y", "e", "a", "r">>,
                                    <<"y", "e", "a", "r", "s">>)

C16_Witness ==
    /\ fnIn = [createdAt |-> JSDate(5), now |-> JSDate(5 + 7 * HoursPerDay + 23)]
    /\ fnOut = Applied(<<"1", " ", "w", "e", "e", "k">>)

C16_WitnessTwoYears ==
    /\ fnIn.createdAt = JSDate(0)
    /\ fnIn.now = JSDate(730 * HoursPerDay)
    /\ fnOut = Applied(<<"2", " ", "y", "e", "a", "r", "s">>)

(***************************************************************************)
(* C17: a request issues at most one provider call, exactly one once the   *)
(* service function has accepted its input, and still exactly one after    *)
(* the call has failed, whatever the status.                               *)
(***************************************************************************)
\* the service function of the request has been entered with input that
\* passes its validation
ServiceAcceptedInput ==
    \/ Entry("generate") /\ ~PromptInvalid(req.body.prompt)
    \/ /\ Entry("reflection")
       /\ FetchedLetter
       /\ letter.isDelivered
       /\ letter.content # <<>>
    \/ Entry("writing")
    \/ Entry("affirmation")

ProviderFailed == providerAnswer # None /\ providerAnswer.kind = "failure"

\* C17: at most one provider call, exactly one for valid input, no retry
C17_OneProviderCallNoRetry ==
    /\ providerCalls <= 1
    /\ ServiceAcceptedInput => providerCalls = 1
    /\ ProviderFailed => providerCalls = 1 /\ Ended

C17_Witness ==
    /\ Entry("reflection")
    /\ ServiceAcceptedInput
    /\ ProviderFailedWith(JSNum(429))
    /\ providerCalls = 1
    /\ Ended

(***************************************************************************)
(* C18: a validation failure, a Content Store failure and a provider       *)
(* failure each end the request with that error and with no result and no  *)
(* success envelope; a result or an envelope exists only when the provider *)
(* has answered, and a degraded result only when its text did not decode.  *)
(***************************************************************************)
ValidationFailed ==
    \/ Entry("generate") /\ PromptInvalid(req.body.prompt)
    \/ Entry("reflection") /\ Falsy(req.body.letterId)
    \/ /\ Entry("reflection")
       /\ FetchedLetter
       /\ (~letter.isDelivered \/ letter.content = <<>>)

StoreFailed == letter # None /\ "rejected" \in DOMAIN letter

EndedWithError(name) ==
    /\ pc = "done"
    /\ outcome.type = "error"
    /\ outcome.error.name = name
    /\ result = None

\* the text is not JSON, or is JSON with no fields to read (null)
DecodeFails(text) == Undecodable(text) \/ JSONparse(text).v = JSNull

\* C18: only a decode failure is recovered locally
C18_OnlyDecodeFailureIsRecovered ==
    /\ ValidationFailed => EndedWithError("ValidationError") /\ providerCalls = 0
    /\ StoreFailed => EndedWithError("LetterServiceError") /\ providerCalls = 0
    /\ ProviderFailed
           => /\ EndedWithError("AIServiceError")
              /\ outcome.error = GeminiError(providerAnswer)
    /\ (result # None \/ EndedWithEnvelope)
           => ProviderReturned /\ ~ValidationFailed /\ ~StoreFailed
    /\ (result # None /\ Degraded(result))
           => StructuredEntry /\ DecodeFails(providerAnswer.text)

C18_Witness ==
    /\ Entry("reflection")
    /\ StoreFailed
    /\ EndedWithError("LetterServiceError")
    /\ storeLookups = 1

C18_WitnessDegraded ==
    /\ Entry("affirmation")
    /\ result # None
    /\ Degraded(result)
    /\ providerAnswer.text = <<"n", "u", "l", "l">>
    /\ EndedWithEnvelope

(***************************************************************************)
(* C19: whatever the status of the provider failure, the error raised by   *)
(* callGeminiAPI carries that failure as its wrapped cause.                *)
(***************************************************************************)
\* C19: the mapped error wraps the provider failure
C19_MappedErrorKeepsCause ==
    ProviderFailed
        => /\ Ended
           /\ outcome.type = "error"
           /\ outcome.error.originalError = providerAnswer

(***************************************************************************)
(* C20: for a freeform request, each of temperature, maxOutputTokens, topP *)
(* and topK sent to the provider is the value of the request body when the *)
(* body has one, and the fixed default otherwise.                          *)
(***************************************************************************)
\* C20: every supplied sampling parameter is sent, every omitted one defaults
C20_SuppliedSamplingIsSent ==
    (Entry("generate") /\ sent # None)
        => \A f \in SamplingFields :
               sent.config[f] = IF req.body[f] = JSUndefined
                                THEN DEFAULT_CONFIG[f]
                                ELSE req.body[f]

(***************************************************************************)
(* C21: the sampling parameters of every provider call lie in their        *)
(* ranges: temperature in [0,2], maxOutputTokens > 0, topP in [0,1] and    *)
(* topK >= 0 (temperature and topP counted in hundredths).                 *)
(***************************************************************************)
InSamplingRange(f, v) ==
    /\ v.t = "num"
    /\ CASE f = "temperature" -> 0 <= v.n /\ v.n <= 200
         [] f = "maxOutputTokens" -> v.n > 0
         [] f = "topP" -> 0 <= v.n /\ v.n <= 100
         [] f = "topK" -> v.n >= 0

\* C21: every sampling parameter sent is within its range
C21_SentSamplingInRange ==
    sent # None
        => \A f \in SamplingFields \cap DOMAIN sent.config :
               InSamplingRange(f, sent.config[f])

(***************************************************************************)
(* formatGoalsForPrompt on its own                                         *)
(***************************************************************************)
MaxGoals == 3

Goals ==
    [text : {<<"R", "u", "n">>, <<"R", "e", "a", "d", " ", "2">>},
     status : {Pending,
               <<"a", "c", "c", "o", "m", "p", "l", "i", "s", "h", "e", "d">>,
               <<"i", "n", "P", "r", "o", "g", "r", "e", "s", "s">>}]

GoalLists ==
    {JSUndefined, JSNull}
        \cup {JSArr(a) : a \in UNION {[1..k -> Goals] : k \in 0..MaxGoals}}

InitGoals == Idle /\ fnIn \in GoalLists /\ fnOut = None

ApplyFormatGoalsForPrompt ==
    /\ fnOut = None
    /\ fnOut' = Applied(formatGoalsForPrompt(fnIn))
    /\ UNCHANGED <<pc, req, letter, sent, providerCalls, storeLookups,
                   providerAnswer, result, outcome, fnIn>>

SpecGoals == InitGoals /\ [][ApplyFormatGoalsForPrompt]_vars

(***************************************************************************)
(* C22: formatGoalsForPrompt gives one line per goal, in the order of the  *)
(* list: the goal's text, followed by its status in parentheses exactly    *)
(* when the status is not 'pending'; no goals give the empty string.       *)
(***************************************************************************)
\* the line holds the text and, after it, exactly `rest`
LineIsTextThen(line, text, rest) ==
    /\ Len(line) = 2 + Len(text) + Len(rest)
    /\ SubSeq(line, 3, 2 + Len(text)) = text
    /\ SubSeq(line, 3 + Len(text), Len(line)) = rest

\* C22: a parenthetical status exactly for the goals that are not pending
C22_GoalsRenderedWithStatusUnlessPending ==
    fnOut # None
        => IF fnIn.t # "arr" \/ fnIn.a = <<>> THEN fnOut.v = <<>>
           ELSE LET lines == Split(fnOut.v, "\n")
                IN  /\ Len(lines) = Len(fnIn.a) + 1
                    /\ \A i \in 1..Len(fnIn.a) :
                           LET g == fnIn.a[i]
                           IN  LineIsTextThen(
                                   lines[i + 1], g.text,
                                   IF g.status = Pending THEN <<>>
                                   ELSE <<" ", "(">> \o g.status \o <<")">>)

C22_Witness ==
    /\ fnIn = JSArr(<<[text |-> <<"R", "u", "n">>, status |-> Pending],
                      [text |-> <<"R", "e", "a", "d", " ", "2">>,
                       status |-> <<"i", "n", "P", "r", "o", "g", "r", "e",
                                    "s", "s">>]>>)
    /\ fnOut # None
    /\ Split(fnOut.v, "\n")[2] = <<"-", " ", "R", "u", "n">>
    /\ Split(fnOut.v, "\n")[3] =
           <<"-", " ", "R", "e", "a", "d", " ", "2", " ", "(", "i", "n", "P",
             "r", "o", "g", "r", "e", "s", "s", ")">>

(***************************************************************************)
(* The instruction texts of two requests with the same inputs, built at    *)
(* two times                                                               *)
(***************************************************************************)
PromptLetters ==
    [_id : {JSStr(<<"L", "1">>)},
     isDelivered : {TRUE},
     content : {<<"g", "o", "a", "l">>, <<"c", "a", "t">>},
     title : {JSUndefined, JSStr(<<"\"", "H", "i">>)},
     mood : {JSUndefined, JSStr(<<"o", "k">>)},
     goals : {JSUndefined,
              JSArr(<<[text |-> <<"R", "u", "n">>, status |-> Pending]>>)},
     createdAt : {JSUndefined, JSDate(0)}]

PromptWritingOptions ==
    [count : 1..5,
     mood : {JSUndefined, JSStr(<<"o", "k">>)},
     theme : {JSUndefined, JSStr(<<"s", "e", "a">>)}]

PromptAffirmationOptions ==
    [username : {JSUndefined, JSStr(<<"A", "n", "n">>)},
     timeOfDay : {JSUndefined, JSStr(<<"n", "i", "g", "h", "t">>),
                  JSStr(<<"n", "o", "o", "n">>)},
     stats : {JSUndefined,
              [t |-> "obj", currentStreak |-> 2, totalLetters |-> 1,
               goalsAccomplished |-> 0]}]

\* the times of the two requests, in hours after the letter was written:
\* within the third day, and within the eighth
PromptTimes == {JSDate(72), JSDate(95), JSDate(192), JSDate(200)}

PromptRequests ==
    [intent : {"reflection"}, letter : PromptLetters]
        \cup [intent : {"writing"}, options : PromptWritingOptions]
        \cup [intent : {"affirmation"}, options : PromptAffirmationOptions]

\* what the service function of the intent sends when called at `now`
InstructionsSent(r, now) ==
    LET request ==
            CASE r.intent = "reflection" ->
                     generateReflectionPromptCall(r.letter, now).v
              [] r.intent = "writing" -> generateWritingPromptsCall(r.options).v
              [] r.intent = "affirmation" ->
                     generateAffirmationCall(r.options).v
    IN  [systemInstruction |-> request.config.systemInstruction,
         userPrompt |-> request.contents]

InitPrompts ==
    /\ Idle
    /\ fnIn \in [request : PromptRequests, first : PromptTimes,
                 second : PromptTimes]
    /\ fnOut = None

\* the first request is served, then the second
BuildInstructions ==
    /\ \/ /\ fnOut = None
          /\ fnOut' = Applied(<<InstructionsSent(fnIn.request, fnIn.first)>>)
       \/ /\ fnOut # None
          /\ Len(fnOut.v) = 1
          /\ fnOut' = Applied(Append(fnOut.v,
                                     InstructionsSent(fnIn.request, fnIn.second)))
    /\ UNCHANGED <<pc, req, letter, sent, providerCalls, storeLookups,
                   providerAnswer, result, outcome, fnIn>>

SpecPrompts == InitPrompts /\ [][BuildInstructions]_vars

(***************************************************************************)
(* C23: two requests of one intent with the same inputs are sent the same  *)
(* system and user instruction texts.                                      *)
(***************************************************************************)
BothBuilt == fnOut # None /\ Len(fnOut.v) = 2

\* C23 as stated: the same texts whenever the two requests are made
C23_SameInputsSameInstructions ==
    BothBuilt => fnOut.v[1] = fnOut.v[2]

\* the whole days between the letter's creation and a time
DaysSince(l, now) ==
    CHOOSE k \in 0..now.h :
        k * HoursPerDay <= now.h - l.createdAt.h
            /\ now.h - l.createdAt.h < (k + 1) * HoursPerDay

\* the letter is as old, in the unit its age is stated in, at both times
SameAge(l, first, second) ==
    \/ l.createdAt.t # "date"
    \/ LET a == DaysSince(l, first)
           b == DaysSince(l, second)
       IN  \/ a = b
           \/ /\ a \in 7..29
              /\ b \in 7..29
              /\ \E w \in 1..4 : {a, b} \subseteq (7 * w)..(7 * w + 6)

\* C23: the same texts for the writing and affirmation intents at any two
\* times, and for the reflection intent at two times at which the letter's
\* stated age is the same; at two times with different stated ages the
\* reflection texts differ
C23_SameInputsAndAgeSameInstructions ==
    BothBuilt
        => IF fnIn.request.intent = "reflection"
           THEN SameAge(fnIn.request.letter, fnIn.first, fnIn.second)
                    <=> fnOut.v[1] = fnOut.v[2]
           ELSE fnOut.v[1] = fnOut.v[2]

C23_Witness ==
    /\ BothBuilt
    /\ fnIn.request.intent = "reflection"
    /\ fnIn.request.letter.createdAt = JSDate(0)
    /\ fnIn.first = JSDate(72)
    /\ fnIn.second = JSDate(95)
    /\ fnOut.v[1] = fnOut.v[2]

(***************************************************************************)
(* The reflection instructions of two letters that differ in content only  *)
(***************************************************************************)
\* one or two words of a letter
ShortContents ==
    {JoinWith(ws, <<" ">>) : ws \in UNION {[1..k -> ContentWords] : k \in 1..2}}

\* the letters with a given title and content
LettersWith(title, contents) ==
    [_id : {JSStr(<<"L", "1">>)},
     isDelivered : {TRUE},
     content : contents,
     title : {title},
     mood : {JSStr(<<"o", "k">>)},
     goals : {JSUndefined},
     createdAt : {JSDate(0)}]

\* two letters alike but for their content, read at the same time
InitLetterPair ==
    /\ Idle
    /\ \E title \in {JSUndefined, JSStr(<<"H", "i">>)} :
           fnIn \in [first : LettersWith(title, ShortContents),
                     second : LettersWith(title, ShortContents),
                     now : {JSDate(72)}]
    /\ fnOut = None

\* generateReflectionPrompt for the first letter, then for the second
BuildReflectionInstructions ==
    /\ \/ /\ fnOut = None
          /\ fnOut' = Applied(<<InstructionsSent(
                                    [intent |-> "reflection", letter |-> fnIn.first],
                                    fnIn.now)>>)
       \/ /\ fnOut # None
          /\ Len(fnOut.v) = 1
          /\ fnOut' = Applied(Append(fnOut.v,
                                     InstructionsSent(
                                         [intent |-> "reflection",
                                          letter |-> fnIn.second],
                                         fnIn.now)))
    /\ UNCHANGED <<pc, req, letter, sent, providerCalls, storeLookups,
                   providerAnswer, result, outcome, fnIn>>

SpecLetterPair == InitLetterPair /\ [][BuildReflectionInstructions]_vars

(***************************************************************************)
(* C24: two letters with the same title, mood, goals and creation time     *)
(* whose contents match the same keyword groups are sent the same          *)
(* reflection instructions.                                                *)
(***************************************************************************)
\* C24: the instructions depend on the content only through its groups
C24_ContentReachesPromptOnlyAsThemes ==
    (BothBuilt /\ MatchedGroups(fnIn.first.content)
                      = MatchedGroups(fnIn.second.content))
        => fnOut.v[1] = fnOut.v[2]

C24_Witness ==
    /\ BothBuilt
    /\ fnIn.first.content = <<"j", "o", "y", " ", "L", "O", "V", "E">>
    /\ fnIn.second.content = <<"L", "O", "V", "E", " ", "j", "o", "y">>
    /\ fnOut.v[1] = fnOut.v[2]

(***************************************************************************)
(* Two requests in progress at once.  fnIn holds the two requests, each a  *)
(* record of what the sequential model keeps in its variables; fnOut holds *)
(* the objects of the aiService module that every request reads:           *)
(* DEFAULT_CONFIG and RESPONSE_SCHEMAS.  A step runs one request from one  *)
(* await to the next, as a Node.js handler does.                           *)
(***************************************************************************)
ModuleObjects ==
    [DEFAULT_CONFIG |-> DEFAULT_CONFIG, RESPONSE_SCHEMAS |-> RESPONSE_SCHEMAS]

NewRequest(input) ==
    [input |-> input, pc |-> "idle", letter |-> None, now |-> None,
     sent |-> None, providerCalls |-> 0, providerAnswer |-> None,
     result |-> None, outcome |-> None]

\* next(error)
Failed(r, error) ==
    [r EXCEPT !.pc = "done", !.outcome = [type |-> "error", error |-> error]]

\* res.status(200).json({ success: true, data })
Responded(r, value, data) ==
    [r EXCEPT !.pc = "done",
              !.result = value,
              !.outcome = [type |-> "envelope", success |-> TRUE,
                           data |-> data]]

\* ai.models.generateContent(request), the schema read from the module
Calling(r, request, m) ==
    [r EXCEPT !.pc = "calling",
              !.providerCalls = @ + 1,
              !.sent =
                  IF "responseSchema" \in DOMAIN request.config
                  THEN [request EXCEPT
                            !.config.responseSchema =
                                CHOOSE schema \in
                                    {m.RESPONSE_SCHEMAS[n] :
                                         n \in DOMAIN m.RESPONSE_SCHEMAS} :
                                    schema.required
                                        = request.config.responseSchema.required]
                  ELSE request]

buildGenerationConfigAssigning(m, options) ==
    LET config == buildGenerationConfigFrom(m.DEFAULT_CONFIG, options)
    IN  [config |-> config,
         module |-> [m EXCEPT !.DEFAULT_CONFIG =
                                  [f \in DOMAIN m.DEFAULT_CONFIG |-> config[f]]]]

\* buildGenerationConfig run on the module's objects: the object literal it
\* returns, and the module's objects, which it only reads
buildGenerationConfigIn(m, options) ==
    [config |-> buildGenerationConfigFrom(m.DEFAULT_CONFIG, options),
     module |-> m]

\* a handler from its start to its first await
StartRequest(r, m) ==
    LET in == r.input
    IN  CASE in.entry = "generate" ->
                 LET options == [systemInstruction |-> in.body.systemInstruction,
                                 model |-> in.body.model,
                                 temperature |-> in.body.temperature,
                                 maxOutputTokens |-> in.body.maxOutputTokens,
                                 topP |-> JSUndefined,
                                 topK |-> JSUndefined]
                     v == validatePrompt(in.body.prompt)
                     b == buildGenerationConfigIn(m, options)
                 IN  IF v.threw THEN [r |-> Failed(r, v.v), module |-> m]
                     ELSE [r |-> Calling(r, [model |-> OrElse(options.model,
                                                              DEFAULT_MODEL),
                                             contents |-> in.body.prompt,
                                             config |-> b.config], b.module),
                           module |-> b.module]
          [] in.entry = "reflection" ->
                 [r |-> IF NoLetterId(in.body.letterId)
                        THEN Failed(r, ValidationError(
                                           "Letter ID is required",
                                           [letterId |->
                                                "Please provide the letter ID"]))
                        ELSE [r EXCEPT !.pc = "fetching"],
                  module |-> m]
          [] in.entry = "writing" ->
                 [r |-> Calling(r, generateWritingPromptsCall(
                                       [mood |-> in.query.mood,
                                        theme |-> in.query.theme,
                                        count |-> promptCount(in.query.count)]).v,
                                m),
                  module |-> m]
          [] in.entry = "affirmation" ->
                 [r |-> Calling(r, generateAffirmationCall(
                                       [username |-> OrElse(in.user.name,
                                                            in.user.username),
                                        timeOfDay |-> in.query.timeOfDay,
                                        stats |-> in.user.stats]).v,
                                m),
                  module |-> m]

\* getReflectionPrompt from the answer of getLetterById to its next await
StoreAnswered(r, l, now, m) ==
    LET s == [r EXCEPT !.letter = l, !.now = now]
    IN  IF "rejected" \in DOMAIN l
        THEN Failed(s, [name |-> "LetterServiceError"])
        ELSE IF NotDelivered(l)
        THEN Failed(s, ValidationError(
                           "Reflection prompts are only available for delivered letters",
                           [letterId |-> "This letter has not been delivered yet"]))
        ELSE LET c == generateReflectionPromptCall(l, now)
             IN  IF c.threw THEN Failed(s, c.v) ELSE Calling(s, c.v, m)


\* a handler from the answer of the provider to its end
ProviderAnswered(r, answer) ==
    LET s == [r EXCEPT !.providerAnswer = answer]
        e == r.input.entry
        call == callGeminiAPI(answer)
    IN  IF call.threw THEN Failed(s, call.v)
        ELSE LET value ==
                     CASE e = "generate" -> Returned(formatResponse(call.v))
                       [] e = "reflection" -> generateReflectionPromptParse(call.v)
                       [] e = "writing" ->
                              generateWritingPromptsParse(
                                  call.v, promptCount(r.input.query.count))
                       [] e = "affirmation" -> generateAffirmationParse(call.v)
             IN  IF value.threw THEN Failed(s, value.v)
                 ELSE Responded(
                          s, value.v,
                          CASE e = "generate" -> value.v
                            [] e = "reflection" ->
                                   [prompt |-> value.v.prompt,
                                    letterId |-> r.letter._id]
                            [] e = "writing" -> [prompts |-> value.v.prompts]
                            [] e = "affirmation" ->
                                   [affirmation |-> value.v.affirmation])

ConcurrentInputs ==
    [entry : {"generate"},
     body : [prompt : {JSStr(<<>>), JSStr(<<"h", "i">>)},
             systemInstruction : {JSUndefined},
             model : {JSUndefined},
             temperature : {JSUndefined, JSNum(150)},
             maxOutputTokens : {JSUndefined},
             topP : {JSUndefined},
             topK : {JSUndefined}]]
        \cup [entry : {"reflection"}, body : [letterId : {JSStr(<<"L", "1">>)}]]
        \cup [entry : {"writing"},
              query : [count : {JSUndefined, JSStr(<<"6", "a">>)},
                       mood : {JSUndefined}, theme : {JSUndefined}]]
        \cup [entry : {"affirmation"},
              query : [timeOfDay : {JSUndefined}], user : Users]

StoreAnswers == LetterRecords \cup {[rejected |-> TRUE]}

ConcurrentAnswers ==
    [kind : {"response"},
     text : {NoText,
             <<"a", "\n", "D", "r", "e", "a", "m", " ", "b", "i", "g", " ",
               "n", "o", "w", "\n", "G", "o">>,
             <<"{", "\"", "q", "u", "e", "s", "t", "i", "o", "n", "\"", ":",
               "\"", "W", "h", "y", "?", "\"", "}">>}]
        \cup [kind : {"failure"}, status : {JSNum(429), JSNum(400)},
              message : {"provider says no"}]

Requests == 1..2

InitConcurrent ==
    /\ Idle
    /\ fnIn \in [Requests -> {NewRequest(input) : input \in ConcurrentInputs}]
    /\ fnOut = ModuleObjects

Begin(i) ==
    /\ fnIn[i].pc = "idle"
    /\ LET after == StartRequest(fnIn[i], fnOut)
       IN  /\ fnIn' = [fnIn EXCEPT ![i] = after.r]
           /\ fnOut' = after.module

LetterAnswers(i, l, now) ==
    /\ fnIn[i].pc = "fetching"
    /\ fnIn' = [fnIn EXCEPT ![i] = StoreAnswered(fnIn[i], l, now, fnOut)]
    /\ fnOut' = fnOut

ProviderAnswers(i, answer) ==
    /\ fnIn[i].pc = "calling"
    /\ fnIn' = [fnIn EXCEPT ![i] = ProviderAnswered(fnIn[i], answer)]
    /\ fnOut' = fnOut

\* whichever request has an answer pending or has not begun runs next
StepOf(i) ==
    /\ \/ Begin(i)
       \/ \E l \in StoreAnswers, now \in Clock : LetterAnswers(i, l, now)
       \/ \E answer \in ConcurrentAnswers : ProviderAnswers(i, answer)
    /\ UNCHANGED <<pc, req, letter, sent, providerCalls, storeLookups,
                   providerAnswer, result, outcome>>

NextConcurrent == \E i \in Requests : StepOf(i)

SpecConcurrent == InitConcurrent /\ [][NextConcurrent]_vars

(***************************************************************************)
(* C25: with two requests in progress, each request is where it would be   *)
(* had it run alone with the same input and the same answers; a request    *)
(* waiting for the provider leaves every step of the other enabled; and    *)
(* DEFAULT_CONFIG and RESPONSE_SCHEMAS are as the module defined them.     *)
(***************************************************************************)
\* the request run alone, as far as r has got, on r's input and answers
Alone(r) ==
    LET started == StartRequest(NewRequest(r.input), ModuleObjects).r
        fetched ==
            IF started.pc = "fetching" /\ r.letter # None
            THEN StoreAnswered(started, r.letter, r.now, ModuleObjects)
            ELSE started
    IN  IF r.pc = "idle" THEN NewRequest(r.input)
        ELSE IF fetched.pc = "calling" /\ r.providerAnswer # None
        THEN ProviderAnswered(fetched, r.providerAnswer)
        ELSE fetched

\* C25: isolation, no blocking, module objects unchanged
C25_ConcurrentRequestsAreIndependent ==
    /\ fnOut = ModuleObjects
    /\ \A i \in Requests : fnIn[i] = Alone(fnIn[i])
    /\ \A i \in Requests : \A j \in Requests \ {i} :
           (fnIn[i].pc = "calling" /\ fnIn[j].pc # "done") => ENABLED StepOf(j)

C25_Witness ==
    /\ fnIn[1].pc = "calling"
    /\ fnIn[1].input.entry = "generate"
    /\ fnIn[1].input.body.temperature = JSNum(150)
    /\ fnIn[2].pc = "done"
    /\ fnIn[2].input.entry = "generate"
    /\ fnIn[2].input.body.temperature = JSUndefined
    /\ fnIn[2].sent # None
    /\ fnIn[2].sent.config.temperature = JSNum(70)
    /\ fnIn[2].outcome.type = "envelope"

(***************************************************************************)
(* The request with answering collaborators: an outstanding lookup is      *)
(* eventually answered by the Content Store, an outstanding call by the    *)
(* provider, each with a result or a failure.                              *)
(***************************************************************************)
StoreAnswer ==
    \/ \E l \in LetterRecords, now \in Clock : getLetterByIdResolves(l, now)
    \/ getLetterByIdRejects

ProviderAnswer ==
    \/ \E response \in ProviderResponses : ProviderResolves(response)
    \/ \E error \in ProviderFailures : ProviderRejects(error)

SpecLive == Spec /\ WF_vars(StoreAnswer) /\ WF_vars(ProviderAnswer)

(***************************************************************************)
(* C26: a request that has been received eventually ends, and it ends with *)
(* one outcome, the success envelope or an error; a request that has not   *)
(* ended has no outcome.                                                   *)
(***************************************************************************)
OneOutcome ==
    /\ pc = "done"
    /\ outcome # None
    /\ \/ outcome.type = "envelope" /\ outcome.success /\ "data" \in DOMAIN outcome
       \/ outcome.type = "error" /\ "error" \in DOMAIN outcome

\* C26: every received request ends with exactly one outcome
C26_EveryRequestEndsWithOneOutcome ==
    /\ [](IF pc = "done" THEN OneOutcome ELSE outcome = None)
    /\ (pc # "idle") ~> OneOutcome

C26_Witness ==
    /\ Entry("writing")
    /\ providerCalls = 1
    /\ ProviderReturned
    /\ OneOutcome
    /\ outcome.type = "envelope"

(***************************************************************************)
(* C27: a writing-prompts request that ends with the success envelope      *)
(* carries at most as many prompts as the clamped count of the request,    *)
(* hence at most 5, whether the provider text was decoded or not.          *)
(***************************************************************************)
\* C27: the envelope has at most the requested number of prompts
C27_PromptsAtMostClampedCount ==
    (Entry("writing") /\ EndedWithEnvelope /\ outcome.data.prompts.t = "arr")
        => /\ Len(outcome.data.prompts.a) <= req.options.count
           /\ Len(outcome.data.prompts.a) <= 5

====
